---- MODULE Spec2Model ----
(***************************************************************************)
(* A model of crocodile's durable store: the per-entity-type JSONL append  *)
(* log (src/src/engine/storage.rs), the SQLite mirror                      *)
(* (src/src/engine/cache.rs) and the engine that mediates between them     *)
(* (src/src/engine/croc_engine.rs).                                        *)
(*                                                                         *)
(* A log file is a sequence of written chunks: one chunk per write the     *)
(* code issues (the JSON text of a record, then the line terminator).      *)
(* A JSON object is a TLA+ record from field names to values.  Entities    *)
(* carry the fields the store's behaviour depends on; the remaining text   *)
(* fields of a struct are folded into title/content.                       *)
(***************************************************************************)
EXTENDS Integers, Sequences, FiniteSets, TLC

\* Bounds of the model.
MaxAppends == 3
MaxFaults == 1

Procs == {1, 2}

\* schemas.rs: the five entity types, and where each is kept.
ETypes == {"plan", "task", "context", "event", "review"}

\* Mutant: tasks are kept in the file of the plans.
LogFile_Shared(ty) ==
    CASE ty = "plan" -> "plans.jsonl"
      [] ty = "task" -> "plans.jsonl"
      [] ty = "context" -> "context.jsonl"
      [] ty = "event" -> "events.jsonl"
      [] ty = "review" -> "reviews.jsonl"

\* Config::plans_file .. reviews_file, as Storage::append_* and read_* use
\* them.
LogFile(ty) ==
    CASE ty = "plan" -> "plans.jsonl"
      [] ty = "task" -> "tasks.jsonl"
      [] ty = "context" -> "context.jsonl"
      [] ty = "event" -> "events.jsonl"
      [] ty = "review" -> "reviews.jsonl"

Files == {LogFile(ty) : ty \in ETypes}

Table(ty) ==
    CASE ty = "plan" -> "plans"
      [] ty = "task" -> "tasks"
      [] ty = "context" -> "context_items"
      [] ty = "event" -> "events"
      [] ty = "review" -> "reviews"

Tables == {Table(ty) : ty \in ETypes}

\* Option<T>: None, or the value itself.  JNULL is the JSON literal null.
NONE == "None"
JNULL == "null"

PlanStatus == {"Pending", "Approved", "Running", "Complete", "Cancelled"}
TaskStatus == {"Pending", "Running", "Complete", "Failed"}
ReviewStatus == {"Pending", "Approved", "ChangesRequested"}
EventType == {"Initialized", "PlanCreated", "PlanApproved"}

\* #[serde(rename_all = "snake_case")] on every enum.
SnakeCase(v) ==
    CASE v = "Pending" -> "pending"
      [] v = "Approved" -> "approved"
      [] v = "Running" -> "running"
      [] v = "Complete" -> "complete"
      [] v = "Cancelled" -> "cancelled"
      [] v = "Failed" -> "failed"
      [] v = "ChangesRequested" -> "changes_requested"
      [] v = "Initialized" -> "initialized"
      [] v = "PlanCreated" -> "plan_created"
      [] v = "PlanApproved" -> "plan_approved"

\* Deserialize of an enum: the variant whose snake_case name is s, if any.
IsVariant(enum, s) == \E v \in enum : SnakeCase(v) = s
Variant(enum, s) == CHOOSE v \in enum : SnakeCase(v) = s

\* Option<String> and Option<serde_json::Value> both serialize None as null;
\* Some(Value::Null) serializes as null too.
OptToJson(x) == IF x = NONE THEN JNULL ELSE x

ValueToJson(d) ==
    CASE d = NONE -> JNULL
      [] d = "Some(null)" -> JNULL
      [] d = "Some({})" -> "{}"

\* deserialize_option: a missing field or a null is None, anything else Some.
OptFromJson(o, f) == IF f \in DOMAIN o /\ o[f] # JNULL THEN o[f] ELSE NONE

ValueFromJson(o, f) ==
    IF f \in DOMAIN o /\ o[f] # JNULL THEN "Some({})" ELSE NONE

\* chrono's serde form of DateTime<Utc>, and its inverse.
TimeToJson(t) == <<"utc", t>>
TimeFromJson(j) == j[2]

Plan(id, title, status, at) ==
    [id |-> id, title |-> title, status |-> status, created_at |-> at]

Task(id, plan, title, status, at) ==
    [id |-> id, plan_id |-> plan, title |-> title, status |-> status,
     created_at |-> at]

ContextItem(id, plan, subtask, content, at) ==
    [id |-> id, plan_id |-> plan, subtask_id |-> subtask, content |-> content,
     created_at |-> at]

Event(id, etype, data, at) ==
    [id |-> id, event_type |-> etype, data |-> data, timestamp |-> at]

Review(id, plan, status, at) ==
    [id |-> id, plan_id |-> plan, status |-> status, created_at |-> at]

\* serde_json::to_string of a record of type ty (derive(Serialize)).
ToJson(ty, e) ==
    CASE ty = "plan" ->
           [id |-> e.id, title |-> e.title, status |-> SnakeCase(e.status),
            created_at |-> TimeToJson(e.created_at)]
      [] ty = "task" ->
           [id |-> e.id, plan_id |-> e.plan_id, title |-> e.title,
            status |-> SnakeCase(e.status),
            created_at |-> TimeToJson(e.created_at)]
      [] ty = "context" ->
           [id |-> e.id, plan_id |-> e.plan_id,
            subtask_id |-> OptToJson(e.subtask_id), content |-> e.content,
            created_at |-> TimeToJson(e.created_at)]
      [] ty = "event" ->
           [id |-> e.id, event_type |-> SnakeCase(e.event_type),
            data |-> ValueToJson(e.data),
            timestamp |-> TimeToJson(e.timestamp)]
      [] ty = "review" ->
           [id |-> e.id, plan_id |-> e.plan_id, status |-> SnakeCase(e.status),
            created_at |-> TimeToJson(e.created_at)]

\* The fields derive(Deserialize) requires: every field that is not an Option.
Required(ty) ==
    CASE ty = "plan" -> {"id", "title", "status", "created_at"}
      [] ty = "task" -> {"id", "plan_id", "title", "status", "created_at"}
      [] ty = "context" -> {"id", "plan_id", "content", "created_at"}
      [] ty = "event" -> {"id", "event_type", "timestamp"}
      [] ty = "review" -> {"id", "plan_id", "status", "created_at"}

StatusEnum(ty) ==
    CASE ty = "plan" -> PlanStatus
      [] ty = "task" -> TaskStatus
      [] ty = "review" -> ReviewStatus

\* Whether serde_json::from_str::<T> accepts the object o.
Parses(ty, o) ==
    /\ Required(ty) \subseteq DOMAIN o
    /\ ty \in {"plan", "task", "review"} => IsVariant(StatusEnum(ty), o.status)
    /\ ty = "event" => IsVariant(EventType, o.event_type)

\* serde_json::from_str::<T> of an object it accepts.
FromJson(ty, o) ==
    CASE ty = "plan" ->
           Plan(o.id, o.title, Variant(PlanStatus, o.status),
                TimeFromJson(o.created_at))
      [] ty = "task" ->
           Task(o.id, o.plan_id, o.title, Variant(TaskStatus, o.status),
                TimeFromJson(o.created_at))
      [] ty = "context" ->
           ContextItem(o.id, o.plan_id, OptFromJson(o, "subtask_id"),
                       o.content, TimeFromJson(o.created_at))
      [] ty = "event" ->
           Event(o.id, Variant(EventType, o.event_type),
                 ValueFromJson(o, "data"), TimeFromJson(o.timestamp))
      [] ty = "review" ->
           Review(o.id, o.plan_id, Variant(ReviewStatus, o.status),
                  TimeFromJson(o.created_at))

\* The columns an upsert binds (cache.rs): enums as their JSON text, times as
\* RFC 3339 text, Option<String> as the text or SQL NULL.
SQLNULL == "NULL"
JsonString(s) == "\"" \o s \o "\""
ToRfc3339(t) == <<"rfc3339", t>>
ParseFromRfc3339(c) == c[2]
OptToSql(x) == IF x = NONE THEN SQLNULL ELSE x
OptFromSql(c) == IF c = SQLNULL THEN NONE ELSE c

\* event.data.as_ref().map(|d| d.to_string())
ValueToSql(d) ==
    CASE d = NONE -> SQLNULL
      [] d = "Some(null)" -> "null"
      [] d = "Some({})" -> "{}"

ToRow(ty, e) ==
    CASE ty = "plan" ->
           [id |-> e.id, title |-> e.title,
            status |-> JsonString(SnakeCase(e.status)),
            created_at |-> ToRfc3339(e.created_at)]
      [] ty = "task" ->
           [id |-> e.id, plan_id |-> e.plan_id, title |-> e.title,
            status |-> JsonString(SnakeCase(e.status)),
            created_at |-> ToRfc3339(e.created_at)]
      [] ty = "context" ->
           [id |-> e.id, plan_id |-> e.plan_id,
            subtask_id |-> OptToSql(e.subtask_id), content |-> e.content,
            created_at |-> ToRfc3339(e.created_at)]
      [] ty = "event" ->
           [id |-> e.id, event_type |-> JsonString(SnakeCase(e.event_type)),
            data |-> ValueToSql(e.data),
            timestamp |-> ToRfc3339(e.timestamp)]
      [] ty = "review" ->
           [id |-> e.id, plan_id |-> e.plan_id,
            status |-> JsonString(SnakeCase(e.status)),
            created_at |-> ToRfc3339(e.created_at)]

\* serde_json::from_str of a status column.
StatusFromSql(enum, c) == CHOOSE v \in enum : JsonString(SnakeCase(v)) = c

RowToPlan(r) ==
    Plan(r.id, r.title, StatusFromSql(PlanStatus, r.status),
         ParseFromRfc3339(r.created_at))

RowToTask(r) ==
    Task(r.id, r.plan_id, r.title, StatusFromSql(TaskStatus, r.status),
         ParseFromRfc3339(r.created_at))

RowToContext(r) ==
    ContextItem(r.id, r.plan_id, OptFromSql(r.subtask_id), r.content,
                ParseFromRfc3339(r.created_at))

\* Mutant: INSERT OR IGNORE keeps the row the id already has.
InsertOrReplace_Ignore(tbl, row) ==
    IF \E r \in tbl : r.id = row.id THEN tbl ELSE tbl \cup {row}

\* INSERT OR REPLACE on a table whose primary key is id.
InsertOrReplace(tbl, row) == {r \in tbl : r.id # row.id} \cup {row}

\* A Result: Ok(value) or Err(error kind, its fields).
Ok(v) == [ok |-> TRUE, val |-> v]
Err(kind, info) == [ok |-> FALSE, err |-> kind, info |-> info]

\* A log file's chunks: the JSON text of one record, a line terminator, or a
\* run of spaces (nothing the program writes; a file edited by hand has them).
JsonChunk(o) == [k |-> "json", o |-> o]
NlChunk == [k |-> "nl"]
WsChunk == [k |-> "ws"]

\* BufRead::lines: the chunks between terminators; a last line with no
\* terminator is a line too when it is not empty.
RECURSIVE LinesFrom(_, _, _)
LinesFrom(content, i, cur) ==
    IF i > Len(content)
    THEN IF cur = <<>> THEN <<>> ELSE <<cur>>
    ELSE IF content[i].k = "nl"
         THEN <<cur>> \o LinesFrom(content, i + 1, <<>>)
         ELSE LinesFrom(content, i + 1, Append(cur, content[i]))

Lines(content) == LinesFrom(content, 1, <<>>)

\* line.trim().is_empty()
IsBlank(line) == \A i \in 1..Len(line) : line[i].k = "ws"

\* What serde_json::from_str looks at: it skips the white space before the
\* value and accepts white space after it.
Trimmed(line) == SelectSeq(line, LAMBDA c : c.k # "ws")

\* serde_json::from_str accepts a line that is the text of exactly one object
\* with the type's required fields.
LineParses(ty, line) ==
    /\ Len(Trimmed(line)) = 1
    /\ Trimmed(line)[1].k = "json"
    /\ Parses(ty, Trimmed(line)[1].o)

\* Mutant: a missing file is reported as the failure of File::open.
ReadJsonl_MissingIsError(ty, exists, content) ==
    IF ~exists
    THEN Err("Storage", <<"open">>)
    ELSE LET ls == SelectSeq(Lines(content), LAMBDA l : ~IsBlank(l))
         IN IF \E i \in 1..Len(ls) : ~LineParses(ty, ls[i])
            THEN Err("Json", <<>>)
            ELSE Ok([i \in 1..Len(ls) |-> FromJson(ty, Trimmed(ls[i])[1].o)])

\* Mutant: a line that does not parse is skipped like a blank one.
ReadJsonl_SkipUnparsed(ty, exists, content) ==
    IF ~exists
    THEN Ok(<<>>)
    ELSE LET ls == SelectSeq(Lines(content), LAMBDA l : LineParses(ty, l))
         IN Ok([i \in 1..Len(ls) |-> FromJson(ty, Trimmed(ls[i])[1].o)])

\* Mutant: a blank line is handed to the parser like any other.
ReadJsonl_ParseBlank(ty, exists, content) ==
    IF ~exists
    THEN Ok(<<>>)
    ELSE LET ls == Lines(content)
         IN IF \E i \in 1..Len(ls) : ~LineParses(ty, ls[i])
            THEN Err("Json", <<>>)
            ELSE Ok([i \in 1..Len(ls) |-> FromJson(ty, Trimmed(ls[i])[1].o)])

\* Storage::read_jsonl on a file with this existence and content.
ReadJsonl(ty, exists, content) ==
    IF ~exists
    THEN Ok(<<>>)
    ELSE LET ls == SelectSeq(Lines(content), LAMBDA l : ~IsBlank(l))
         IN IF \E i \in 1..Len(ls) : ~LineParses(ty, ls[i])
            THEN Err("Json", <<>>)
            ELSE Ok([i \in 1..Len(ls) |-> FromJson(ty, Trimmed(ls[i])[1].o)])

(***************************************************************************)
(* State.                                                                  *)
(***************************************************************************)
VARIABLES
    dirExists,  \* Config::is_initialized: the .croc directory exists
    fexists,    \* per log file: it has been created
    fdata,      \* per log file: the chunks written so far
    lock,       \* per log file: the processes holding its exclusive lock
    mirror,     \* per table: its rows
    eng,        \* per process: it holds a constructed CrocEngine
    pc,         \* per process: where it is in the call it is executing
    call,       \* per process: the call it is executing
    todo,       \* per process: the records a full sync has read and not yet upserted
    res,        \* per process: its last completed call and what it returned
    pre,        \* per process: mirror and log content when its call started
    issued,     \* per process: the Storage appends it has issued, in order
    granted,    \* per log file: the Storage appends in the order the lock was granted
    acked,      \* per process: the Storage appends that returned Ok, in order
    unmirrored, \* the records whose mirror upsert failed after their log append
    written,    \* per process: the entities its engine appended with Ok, none written or wiped since
    sessions,   \* the tmux server: its sessions, each with a name, a command and the keys sent to it
    faults      \* the number of I/O failures injected so far

vars == <<dirExists, fexists, fdata, lock, mirror, eng, pc, call, todo, res,
          pre, issued, granted, acked, unmirrored, written, sessions, faults>>

NoCall == [op |-> "none", ty |-> "none", arg |-> NONE]
NoRes == [op |-> "none", ty |-> "none", arg |-> NONE, ret |-> Ok(NONE)]
NoPre == [mirror |-> [t \in Tables |-> {}], fdata |-> [f \in Files |-> <<>>]]

\* The project directory either does not exist yet or exists with no file in
\* it (a Config pointed at an existing directory); nothing has run.
Init ==
    /\ dirExists \in BOOLEAN
    /\ fexists = [f \in Files |-> FALSE]
    /\ fdata = [f \in Files |-> <<>>]
    /\ lock = [f \in Files |-> {}]
    /\ mirror = [t \in Tables |-> {}]
    /\ eng = [p \in Procs |-> FALSE]
    /\ pc = [p \in Procs |-> "idle"]
    /\ call = [p \in Procs |-> NoCall]
    /\ todo = [p \in Procs |-> <<>>]
    /\ res = [p \in Procs |-> NoRes]
    /\ pre = [p \in Procs |-> NoPre]
    /\ issued = [p \in Procs |-> <<>>]
    /\ granted = [f \in Files |-> <<>>]
    /\ acked = [p \in Procs |-> <<>>]
    /\ unmirrored = {}
    /\ written = [p \in Procs |-> {}]
    /\ sessions = {}
    /\ faults = 0

\* The record commands/init.rs appends to the events file: InitEvent has the
\* fields id, type and timestamp.
InitEventJson ==
    [id |-> "evt-0", type |-> "initialized", timestamp |-> TimeToJson(0)]

\* commands/init.rs exec: returns early when the directory exists; otherwise
\* creates it, creates the five log files empty and appends the init event.
InitExec ==
    /\ ~dirExists
    /\ dirExists' = TRUE
    /\ fexists' = [f \in Files |-> TRUE]
    /\ fdata' = [f \in Files |->
                    IF f = LogFile("event")
                    THEN <<JsonChunk(InitEventJson), NlChunk>>
                    ELSE <<>>]
    /\ UNCHANGED sessions
    /\ UNCHANGED <<lock, mirror, eng, pc, call, todo, res, pre, issued,
                   granted, acked, faults, unmirrored, written>>

\* An I/O failure may be injected while the budget lasts.
CanFail == faults < MaxFaults
Fault(p, site) == faults' = faults + 1

AppendsIssued == Len(issued[1]) + Len(issued[2])

\* The call of p returns ret to its caller.
ReturnWith(p, arg, ret) ==
    /\ pc' = [pc EXCEPT ![p] = "idle"]
    /\ res' = [res EXCEPT ![p] = [op |-> call[p].op, ty |-> call[p].ty,
                                  arg |-> arg, ret |-> ret]]
    /\ call' = [call EXCEPT ![p] = NoCall]
    /\ todo' = [todo EXCEPT ![p] = <<>>]

Return(p, ret) == ReturnWith(p, call[p].arg, ret)

\* Mutant: the result of the log append is discarded (no ? operator): the
\* engine goes on to the mirror upsert whatever the log append returned.
AfterLogAppend_IgnoreError(p, ret) ==
    IF call[p].op = "append"
    THEN /\ pc' = [pc EXCEPT ![p] = "upsert"]
         /\ UNCHANGED <<res, call, todo>>
    ELSE Return(p, ret)

\* Where a call of p continues after Storage::append_* returned ret: a direct
\* call returns it; CrocEngine::append_* returns an error (the ? operator) and
\* goes on to the mirror upsert only after Ok.
AfterLogAppend(p, ret) ==
    IF call[p].op = "append" /\ ret.ok
    THEN /\ pc' = [pc EXCEPT ![p] = "upsert"]
         /\ UNCHANGED <<res, call, todo>>
    ELSE Return(p, ret)

\* The call of p is a call of Storage's own append_*, not the engine's.
Direct(p) == call[p].op = "storage_append"

\* Mutant: the File is leaked (mem::forget) and never unlocked: its lock
\* stays.
Release_Leaked(f, p) == UNCHANGED lock

\* file.unlock(), or the File dropped at a return: p no longer holds the lock
\* of f.
Release(f, p) == lock' = [lock EXCEPT ![f] = @ \ {p}]

\* Mutant: a shared lock (lock_shared) is granted whoever else holds it.
LockIsFree_Shared(f) == lock[f] \subseteq Procs

\* lock_exclusive blocks until no other open file holds the lock.
LockIsFree(f) == lock[f] = {}

(***************************************************************************)
(* Storage (storage.rs).  append_jsonl_locked is five steps: open, lock,   *)
(* write the JSON text, write the line terminator (writeln! issues the     *)
(* two writes), unlock.  Every early return drops the File, and closing a  *)
(* file releases its lock.  Storage is used inside an existing project    *)
(* directory: init.rs creates the directory before it constructs Storage,  *)
(* and CrocEngine::new refuses a directory that does not exist.            *)
(***************************************************************************)
StorageAppend(p, ty, e) ==
    /\ pc[p] = "idle"
    /\ dirExists
    /\ AppendsIssued < MaxAppends
    /\ call' = [call EXCEPT ![p] = [op |-> "storage_append", ty |-> ty, arg |-> e]]
    /\ pc' = [pc EXCEPT ![p] = "open"]
    /\ res' = [res EXCEPT ![p] = NoRes]
    /\ issued' = [issued EXCEPT ![p] = Append(@, <<ty, e>>)]
    /\ UNCHANGED sessions
    /\ UNCHANGED <<dirExists, fexists, fdata, lock, mirror, eng, todo, pre,
                   granted, acked, faults, unmirrored, written>>

\* Mutant: the file opened with truncate(true) in place of append(true): the
\* open empties it.
Open_Truncate(p) ==
    /\ pc[p] = "open"
    /\ LET f == LogFile(call[p].ty) IN
       /\ fexists' = [fexists EXCEPT ![f] = TRUE]
       /\ fdata' = [fdata EXCEPT ![f] = <<>>]
       /\ pc' = [pc EXCEPT ![p] = "lock"]
    /\ UNCHANGED sessions
    /\ UNCHANGED <<dirExists, lock, mirror, eng, pre, issued, granted, acked,
                   unmirrored, written, res, call, todo, faults>>

\* OpenOptions::new().create(true).append(true).open(path)
Open(p) ==
    /\ pc[p] = "open"
    /\ LET f == LogFile(call[p].ty) IN
       \/ /\ fexists' = [fexists EXCEPT ![f] = TRUE]
          /\ pc' = [pc EXCEPT ![p] = "lock"]
          /\ UNCHANGED <<res, call, todo, faults>>
       \/ /\ CanFail
          /\ Fault(p, "open")
          /\ AfterLogAppend(p, Err("Storage", <<"open">>))
          /\ UNCHANGED fexists
    /\ UNCHANGED sessions
    /\ UNCHANGED <<dirExists, fdata, lock, mirror, eng, pre, issued, granted,
                   acked, unmirrored, written>>

\* Mutant: try_lock_exclusive with its error ignored: the call goes on
\* whether or not the lock was free.
Lock_NoWait(p) ==
    /\ pc[p] = "lock"
    /\ LET f == LogFile(call[p].ty) IN
       /\ lock' = [lock EXCEPT ![f] = @ \cup {p}]
       /\ granted' = [granted EXCEPT ![f] = Append(@, <<p, call[p].arg>>)]
       /\ pc' = [pc EXCEPT ![p] = "write"]
    /\ UNCHANGED sessions
    /\ UNCHANGED <<dirExists, fexists, fdata, mirror, eng, pre, issued, acked,
                   res, call, todo, faults, unmirrored, written>>

\* file.lock_exclusive()
Lock(p) ==
    /\ pc[p] = "lock"
    /\ LET f == LogFile(call[p].ty) IN
       \/ /\ LockIsFree(f)
          /\ lock' = [lock EXCEPT ![f] = @ \cup {p}]
          /\ granted' = IF Direct(p)
                         THEN [granted EXCEPT ![f] = Append(@, <<p, call[p].arg>>)]
                         ELSE granted
          /\ pc' = [pc EXCEPT ![p] = "write"]
          /\ UNCHANGED <<res, call, todo, faults>>
       \/ /\ CanFail
          /\ Fault(p, "lock")
          /\ AfterLogAppend(p, Err("Storage", <<"lock">>))
          /\ UNCHANGED <<lock, granted>>
    /\ UNCHANGED sessions
    /\ UNCHANGED <<dirExists, fexists, fdata, mirror, eng, pre, issued, acked, unmirrored, written>>

\* Mutant: the file opened without append(true): the write lands at offset
\* 0, over what the file held.
Write_NoAppendMode(p) ==
    /\ pc[p] = "write"
    /\ fdata' = [fdata EXCEPT ![LogFile(call[p].ty)] =
                    <<JsonChunk(ToJson(call[p].ty, call[p].arg))>>]
    /\ pc' = [pc EXCEPT ![p] = "newline"]
    /\ UNCHANGED sessions
    /\ UNCHANGED <<dirExists, fexists, mirror, eng, pre, issued, granted,
                   acked, lock, res, call, todo, faults, unmirrored, written>>

\* serde_json::to_string(record) and the first write of writeln!: the text.
Write(p) ==
    /\ pc[p] = "write"
    /\ LET f == LogFile(call[p].ty) IN
       \/ /\ fdata' = [fdata EXCEPT ![f] =
                          Append(@, JsonChunk(ToJson(call[p].ty, call[p].arg)))]
          /\ pc' = [pc EXCEPT ![p] = "newline"]
          /\ UNCHANGED <<lock, res, call, todo, faults>>
       \/ /\ CanFail
          /\ Fault(p, "write")
          /\ Release(f, p)
          /\ AfterLogAppend(p, Err("Storage", <<"write">>))
          /\ UNCHANGED fdata
    /\ UNCHANGED sessions
    /\ UNCHANGED <<dirExists, fexists, mirror, eng, pre, issued, granted,
                   acked, unmirrored, written>>

\* The second write of writeln!: the line terminator.
Newline(p) ==
    /\ pc[p] = "newline"
    /\ LET f == LogFile(call[p].ty) IN
       \/ /\ fdata' = [fdata EXCEPT ![f] = Append(@, NlChunk)]
          /\ pc' = [pc EXCEPT ![p] = "unlock"]
          /\ UNCHANGED <<lock, res, call, todo, faults>>
       \/ /\ CanFail
          /\ Fault(p, "newline")
          /\ Release(f, p)
          /\ AfterLogAppend(p, Err("Storage", <<"write">>))
          /\ UNCHANGED fdata
    /\ UNCHANGED sessions
    /\ UNCHANGED <<dirExists, fexists, mirror, eng, pre, issued, granted,
                   acked, unmirrored, written>>

\* file.unlock(), then Ok(()); when unlock fails the error is returned and
\* the File is dropped, which releases the lock.
Unlock(p) ==
    /\ pc[p] = "unlock"
    /\ LET f == LogFile(call[p].ty) IN
       /\ Release(f, p)
       /\ \/ /\ AfterLogAppend(p, Ok(NONE))
             /\ acked' = IF Direct(p)
                          THEN [acked EXCEPT ![p] =
                                   Append(@, <<call[p].ty, call[p].arg>>)]
                          ELSE acked
             /\ UNCHANGED faults
          \/ /\ CanFail
             /\ Fault(p, "unlock")
             /\ AfterLogAppend(p, Err("Storage", <<"unlock">>))
             /\ UNCHANGED acked
    /\ UNCHANGED sessions
    /\ UNCHANGED <<dirExists, fexists, fdata, mirror, eng, pre, issued, granted, unmirrored, written>>

\* Storage::read_plans .. read_reviews: one read of a whole file.  File::open
\* can fail only for a file that exists (a missing one returns before it).
StorageRead(p, ty) ==
    /\ pc[p] = "idle"
    /\ dirExists
    /\ LET f == LogFile(ty)
           done(ret) ==
               res' = [res EXCEPT ![p] = [op |-> "storage_read", ty |-> ty,
                                         arg |-> Len(fdata[f]), ret |-> ret]]
       IN \/ /\ done(ReadJsonl(ty, fexists[f], fdata[f]))
             /\ UNCHANGED faults
          \/ /\ fexists[f] /\ CanFail
             /\ Fault(p, "read")
             /\ done(Err("Storage", <<"open">>))
    /\ UNCHANGED sessions
    /\ UNCHANGED <<dirExists, fexists, fdata, lock, mirror, eng, pc, call,
                   todo, pre, issued, granted, acked, unmirrored, written>>

\* The log taken alone: two processes that call Storage directly on the
\* events file, the one file that commands/init.rs writes a record into;
\* process 1 also reads it.
LogTypes == {"event"}
Readers == {1}

LogInputs(ty) ==
    CASE ty = "event" ->
           {Event("evt-1", "PlanCreated", NONE, 1),
            Event("evt-2", "PlanApproved", "Some(null)", 2)}

NextLog ==
    \/ InitExec
    \/ \E p \in Procs :
          \/ \E ty \in LogTypes : \E e \in LogInputs(ty) : StorageAppend(p, ty, e)
          \/ Open(p)
          \/ Lock(p)
          \/ Write(p)
          \/ Newline(p)
          \/ Unlock(p)
          \/ \E ty \in LogTypes : p \in Readers /\ StorageRead(p, ty)

SpecLog == Init /\ [][NextLog]_vars

\* One process that calls Storage directly: it appends plans (no optional
\* field in the model; tasks and reviews have the same shape), context items
\* (an optional string) and events (an optional JSON value: absent, null,
\* an object), and reads the logs back.
RoundTripTypes == {"plan", "context", "event"}

RoundTripInputs(ty) ==
    CASE ty = "plan" -> {Plan("plan-a", "t1", "Approved", 1)}
      [] ty = "context" -> {ContextItem("dec-2", "plan-a", "task-a.1", "c2", 2)}
      [] ty = "event" ->
           {Event("evt-1", "PlanCreated", NONE, 1),
            Event("evt-2", "PlanApproved", "Some(null)", 2),
            Event("evt-3", "PlanApproved", "Some({})", 3)}

NextRoundTrip ==
    \/ InitExec
    \/ \E p \in Readers :
          \/ \E ty \in RoundTripTypes : \E e \in RoundTripInputs(ty) :
                StorageAppend(p, ty, e)
          \/ Open(p)
          \/ Lock(p)
          \/ Write(p)
          \/ Newline(p)
          \/ Unlock(p)
          \/ \E ty \in RoundTripTypes : StorageRead(p, ty)

SpecRoundTrip == Init /\ [][NextRoundTrip]_vars

\* Reading taken alone: a project directory in which one log file exists,
\* with any content of at most MaxChunks chunks (records that parse, a record
\* that does not, line terminators, spaces: a file as an editor or another
\* tool may leave it), and one process that reads the logs.
MaxChunks == 5
ReadTypes == {"plan", "event"}

\* The JSON objects found in a file of type ty: two records of the type, and
\* an object the type does not accept (a plan with no status; the record of
\* commands/init.rs, which has type where Event has event_type).
GoodJson(ty) ==
    CASE ty = "plan" ->
           {ToJson("plan", Plan("plan-a", "t1", "Pending", 1)),
            ToJson("plan", Plan("plan-b", "t2", "Approved", 2))}
      [] ty = "event" ->
           {ToJson("event", Event("evt-1", "PlanCreated", NONE, 1)),
            ToJson("event", Event("evt-2", "PlanApproved", "Some({})", 2))}

BadJson(ty) ==
    CASE ty = "plan" ->
           {[id |-> "plan-c", title |-> "t3", created_at |-> TimeToJson(3)]}
      [] ty = "event" -> {InitEventJson}

FileChunks(ty) ==
    {JsonChunk(o) : o \in GoodJson(ty) \cup BadJson(ty)} \cup {NlChunk, WsChunk}

FileContents(ty) ==
    UNION {[1..n -> FileChunks(ty)] : n \in 0..MaxChunks}

InitFiles ==
    /\ dirExists = TRUE
    /\ \E ty \in ReadTypes :
          /\ fexists = [f \in Files |-> f = LogFile(ty)]
          /\ \E c \in FileContents(ty) :
                fdata = [f \in Files |-> IF f = LogFile(ty) THEN c ELSE <<>>]
    /\ lock = [f \in Files |-> {}]
    /\ mirror = [t \in Tables |-> {}]
    /\ eng = [p \in Procs |-> FALSE]
    /\ pc = [p \in Procs |-> "idle"]
    /\ call = [p \in Procs |-> NoCall]
    /\ todo = [p \in Procs |-> <<>>]
    /\ res = [p \in Procs |-> NoRes]
    /\ pre = [p \in Procs |-> NoPre]
    /\ issued = [p \in Procs |-> <<>>]
    /\ granted = [f \in Files |-> <<>>]
    /\ acked = [p \in Procs |-> <<>>]
    /\ unmirrored = {}
    /\ written = [p \in Procs |-> {}]
    /\ sessions = {}
    /\ faults = 0

NextRead == \E p \in Readers : \E ty \in ReadTypes : StorageRead(p, ty)

SpecRead == InitFiles /\ [][NextRead]_vars

(***************************************************************************)
(* Properties of the log.                                                  *)
(***************************************************************************)
RECURSIVE Sum(_, _)
Sum(f, S) == IF S = {} THEN 0 ELSE LET x == CHOOSE x \in S : TRUE
                                   IN f[x] + Sum(f, S \ {x})

Count(seq, x) == Cardinality({i \in 1..Len(seq) : seq[i] = x})

\* The entities of the appends in seq (pairs <<type, entity>>) to type ty.
EntitiesTo(seq, ty) ==
    LET s == SelectSeq(seq, LAMBDA x : x[1] = ty)
    IN [i \in 1..Len(s) |-> s[i][2]]

IssuedTo(p, ty) == EntitiesTo(issued[p], ty)
AckedTo(p, ty) == EntitiesTo(acked[p], ty)

\* The lines appends have added to a file: its lines after the record that
\* project initialization wrote, when it wrote one.
InitLine == <<JsonChunk(InitEventJson)>>
HasInitLine(f) == Lines(fdata[f]) # <<>> /\ Head(Lines(fdata[f])) = InitLine
AppendedLines(f) ==
    IF HasInitLine(f) THEN Tail(Lines(fdata[f])) ELSE Lines(fdata[f])

\* The line that holds exactly the record e.
LineOf(ty, e) == <<JsonChunk(ToJson(ty, e))>>

\* A read by q of type ty that saw the file as it is now.
ReadIsCurrent(q, ty) ==
    /\ res[q].op = "storage_read"
    /\ res[q].ty = ty
    /\ res[q].arg = Len(fdata[LogFile(ty)])

\* The file of type ty holds what p appended and nothing else: it started
\* empty, no other process appended to it, and each append of p returned Ok.
SoleAppender(p, ty) ==
    /\ pc[p] = "idle"
    /\ ~HasInitLine(LogFile(ty))
    /\ \A r \in Procs \ {p} : IssuedTo(r, ty) = <<>>
    /\ AckedTo(p, ty) = IssuedTo(p, ty)

\* An entity as a read returns it: an optional JSON value that is present and
\* null comes back absent.
NullAsAbsent(ty, e) ==
    IF ty = "event" /\ e.data = "Some(null)" THEN [e EXCEPT !.data = NONE] ELSE e

\* C1 as claimed: after N appends by one process to one log file, a read
\* returns exactly the N appended entities, each equal to what was appended,
\* in append order.
C1_ReadReturnsAppended ==
    \A p \in Procs, q \in Procs, ty \in ETypes :
        (ReadIsCurrent(q, ty) /\ SoleAppender(p, ty) /\ res[q].ret.ok)
            => res[q].ret.val = IssuedTo(p, ty)

\* C1 as amended: after N appends by one process to one log file, a read
\* that does not fail on I/O returns exactly N records in append order, each
\* equal to the appended entity except that an event whose data is a present
\* JSON null is returned with its data absent.
C1_ReadReturnsAppendedNullAsAbsent ==
    \A p \in Procs, q \in Procs, ty \in ETypes :
        (ReadIsCurrent(q, ty) /\ SoleAppender(p, ty))
            => IF res[q].ret.ok
               THEN LET a == IssuedTo(p, ty)
                    IN res[q].ret.val = [i \in 1..Len(a) |-> NullAsAbsent(ty, a[i])]
               ELSE res[q].ret.err = "Storage"

\* C1's case: a read that returned three records, all appended by one
\* process and no two of them equal.
C1_Witness ==
    \E p \in Procs, q \in Procs, ty \in ETypes :
        /\ ReadIsCurrent(q, ty) /\ SoleAppender(p, ty) /\ res[q].ret.ok
        /\ Len(res[q].ret.val) = 3
        /\ res[q].ret.val[1] # res[q].ret.val[2]
        /\ res[q].ret.val[1] # res[q].ret.val[3]
        /\ res[q].ret.val[2] # res[q].ret.val[3]

AllIdle == \A p \in Procs : pc[p] = "idle"

\* The processes that are inside append_jsonl_locked on the file of type ty.
Appending(ty) == {p \in Procs : pc[p] # "idle" /\ call[p].ty = ty}

\* C2: when processes append to the same log file concurrently and no I/O
\* failure occurs, every append returns Ok, every line of the file is one
\* whole record (none truncated, none holding bytes of two records), and once
\* all appends have returned the file holds one line per append: each
\* appended record on as many lines as it was appended times.
C2_ConcurrentAppendsIntact ==
    faults = 0 =>
        \A ty \in LogTypes :
            LET ls == AppendedLines(LogFile(ty)) IN
            /\ \A p \in Procs : res[p].op = "storage_append" => res[p].ret.ok
            /\ \A i \in 1..Len(ls) : Len(ls[i]) = 1 /\ ls[i][1].k = "json"
            /\ AllIdle =>
                  /\ Len(ls) = Sum([p \in Procs |-> Len(IssuedTo(p, ty))], Procs)
                  /\ \A e \in LogInputs(ty) :
                        Count(ls, LineOf(ty, e)) =
                            Sum([p \in Procs |-> Count(IssuedTo(p, ty), e)], Procs)

\* C2's case: the file has one record; a process holds the lock with the
\* text of its record written and the line not yet terminated, while the
\* other process, inside its own append to the file, waits for the lock.
C2_Witness ==
    \E ty \in LogTypes : \E p \in Procs : \E q \in Procs \ {p} :
        /\ faults = 0
        /\ pc[p] = "newline" /\ call[p].ty = ty
        /\ pc[q] = "lock" /\ call[q].ty = ty
        /\ Len(AppendedLines(LogFile(ty))) = 2

\* The entities in seq (pairs <<process, entity>>) of process p.
EntitiesOf(seq, p) ==
    LET s == SelectSeq(seq, LAMBDA x : x[1] = p)
    IN [i \in 1..Len(s) |-> s[i][2]]

IsPrefix(s, t) == Len(s) <= Len(t) /\ s = SubSeq(t, 1, Len(s))

\* C3: when no I/O failure occurs, the lines of a log file are the records in
\* the order the lock was granted to their appends (the i-th line is the
\* record of the i-th grant), and the grants to one process are in the order
\* it issued its appends, so its records are in the file in that order
\* whatever the other process appended in between.
C3_OrderIsLockGrantOrder ==
    faults = 0 =>
        \A ty \in LogTypes :
            LET ls == AppendedLines(LogFile(ty))
                g == granted[LogFile(ty)]
            IN /\ Len(ls) <= Len(g)
               /\ Len(g) <= Len(ls) + Cardinality(Appending(ty))
               /\ \A i \in 1..Len(ls) : ls[i] = LineOf(ty, g[i][2])
               /\ \A p \in Procs : IsPrefix(EntitiesOf(g, p), IssuedTo(p, ty))

\* C3's case: a file of three lines where the first and third are one
\* process's records and the second is the other's.
C3_Witness ==
    \E ty \in LogTypes : \E p \in Procs : \E q \in Procs \ {p} :
        LET g == granted[LogFile(ty)] IN
        /\ faults = 0 /\ AllIdle
        /\ Len(AppendedLines(LogFile(ty))) = 3
        /\ g[1][1] = p /\ g[2][1] = q /\ g[3][1] = p
        /\ g[1][2] # g[3][2]

(***************************************************************************)
(* Properties of a read.                                                   *)
(***************************************************************************)
\* The last call of q was a read of the log of type ty.
HasRead(q, ty) == res[q].op = "storage_read" /\ res[q].ty = ty

\* The file as the last read of q saw it: files only grow, and the read
\* recorded how long the file was.
ContentRead(q) ==
    SubSeq(fdata[LogFile(res[q].ty)], 1, res[q].arg)

NonBlankLines(content) == SelectSeq(Lines(content), LAMBDA l : ~IsBlank(l))

\* The records whose texts are in content, in file order.
RecordsIn(ty, content) ==
    LET js == SelectSeq(content, LAMBDA c : c.k = "json")
    IN [i \in 1..Len(js) |-> FromJson(ty, js[i].o)]

\* The number of records the program has written into content.
RecordsWritten(content) ==
    Cardinality({i \in 1..Len(content) : content[i].k = "json"})

\* C12 as claimed: every record the program wrote into the events file, the
\* record of project initialization included, is returned by a read of the
\* file: when no I/O failure occurs the read returns Ok with one event per
\* record written.
C12_OwnRecordsReadBack ==
    \A q \in Procs :
        (HasRead(q, "event") /\ faults = 0)
            => /\ res[q].ret.ok
               /\ Len(res[q].ret.val) = RecordsWritten(ContentRead(q))

\* C17: a read of a log file that does not exist returns Ok with an empty
\* sequence, and the step creates no file and writes to none.
C17_MissingFileReadsEmpty ==
    [][\A q \in Procs :
          (/\ res'[q] # res[q]
           /\ res'[q].op = "storage_read"
           /\ ~fexists[LogFile(res'[q].ty)])
              => /\ res'[q].ret = [ok |-> TRUE, val |-> <<>>]
                 /\ fexists' = fexists
                 /\ fdata' = fdata]_vars

\* C17's case: a read of a file that does not exist has returned, in a
\* directory where another log file exists and holds a record, and the file
\* read still does not exist.
C17_Witness ==
    \E q \in Procs : \E ty \in ReadTypes :
        /\ HasRead(q, ty)
        /\ ~fexists[LogFile(ty)]
        /\ res[q].ret.ok
        /\ \E f \in Files : fexists[f] /\ fdata[f] # <<>>

\* C18: when every line of a log file is blank (empty, or spaces only) or is
\* one record that parses, a read that does not fail on I/O returns Ok with
\* exactly the records of the file, in file order.
C18_BlankLinesSkipped ==
    \A q \in Procs : \A ty \in ReadTypes :
        (/\ HasRead(q, ty)
         /\ fexists[LogFile(ty)]
         /\ \A i \in 1..Len(Lines(ContentRead(q))) :
               \/ IsBlank(Lines(ContentRead(q))[i])
               \/ LineParses(ty, Lines(ContentRead(q))[i]))
            => IF res[q].ret.ok
               THEN res[q].ret.val = RecordsIn(ty, ContentRead(q))
               ELSE faults > 0 /\ res[q].ret.err = "Storage"

\* C18's case: a read has returned two different records from a file of
\* three lines whose second line is spaces only.
C18_Witness ==
    \E q \in Procs : \E ty \in ReadTypes :
        /\ HasRead(q, ty)
        /\ res[q].ret.ok
        /\ Len(Lines(ContentRead(q))) = 3
        /\ Lines(ContentRead(q))[2] = <<WsChunk>>
        /\ Len(res[q].ret.val) = 2
        /\ res[q].ret.val[1] # res[q].ret.val[2]

\* Some line of the file the last read of q saw is not blank and does not
\* parse as a record of the type.
SawUnparsedLine(q) ==
    \E i \in 1..Len(NonBlankLines(ContentRead(q))) :
        ~LineParses(res[q].ty, NonBlankLines(ContentRead(q))[i])

\* C19: when a line of the log file that is not blank fails to parse as a
\* record of the type, the read returns an error, and so no record: none of
\* the records on the lines that do parse.
C19_UnparsedLineFailsRead ==
    \A q \in Procs : \A ty \in ReadTypes :
        (HasRead(q, ty) /\ fexists[LogFile(ty)] /\ SawUnparsedLine(q))
            => /\ ~res[q].ret.ok
               /\ "val" \notin DOMAIN res[q].ret

\* C19's case: a read has returned an error on a file whose first line is a
\* record that parses and whose second line is one that does not.
C19_Witness ==
    \E q \in Procs : \E ty \in ReadTypes :
        /\ HasRead(q, ty)
        /\ ~res[q].ret.ok
        /\ faults = 0
        /\ Len(Lines(ContentRead(q))) = 2
        /\ LineParses(ty, Lines(ContentRead(q))[1])
        /\ ~IsBlank(Lines(ContentRead(q))[2])
        /\ ~LineParses(ty, Lines(ContentRead(q))[2])

\* C20 as claimed: a read that fails because a record of the log does not
\* decode returns an error of the kind Storage, the kind of the log's I/O and
\* lock failures.
C20_DecodeFailureIsStorageError ==
    \A q \in Procs : \A ty \in ReadTypes :
        (HasRead(q, ty) /\ fexists[LogFile(ty)] /\ SawUnparsedLine(q))
            => /\ ~res[q].ret.ok
               /\ res[q].ret.err = "Storage"

(***************************************************************************)
(* The mirror's reads (cache.rs) and the engine (croc_engine.rs).          *)
(***************************************************************************)
MaxEngineAppends == 2
EngineProcs == {1}

\* Cache::get_plan / get_task: fetch_optional on the primary key, then
\* row_to_plan / row_to_task.  An Option is a sequence of at most one value.
CacheGetPlan(m, id) ==
    LET rs == {r \in m["plans"] : r.id = id}
    IN IF rs = {} THEN Ok(<<>>) ELSE Ok(<<RowToPlan(CHOOSE r \in rs : TRUE)>>)

CacheGetTask(m, id) ==
    LET rs == {r \in m["tasks"] : r.id = id}
    IN IF rs = {} THEN Ok(<<>>) ELSE Ok(<<RowToTask(CHOOSE r \in rs : TRUE)>>)

\* Mutant: no ORDER BY: the rows in any arrangement.
OrderByCreatedAt_Unordered(rows) ==
    LET n == Cardinality(rows)
    IN {s \in [1..n -> rows] :
          \A i \in 1..n : \A j \in 1..n : i # j => s[i] # s[j]}

\* ORDER BY created_at: every arrangement of the rows that ascends in
\* created_at; rows with equal created_at come in an order SQLite chooses.
OrderByCreatedAt(rows) ==
    LET n == Cardinality(rows)
    IN {s \in [1..n -> rows] :
          /\ \A i \in 1..n : \A j \in 1..n : i # j => s[i] # s[j]
          /\ \A i \in 1..n : \A j \in 1..n :
                i < j => ParseFromRfc3339(s[i].created_at)
                            <= ParseFromRfc3339(s[j].created_at)}

\* Cache::get_tasks_for_plan / get_context_for_plan: the results the query
\* may return.
CacheGetTasksForPlan(m, plan_id) ==
    {Ok([i \in DOMAIN s |-> RowToTask(s[i])]) :
        s \in OrderByCreatedAt({r \in m["tasks"] : r.plan_id = plan_id})}

CacheGetContextForPlan(m, plan_id) ==
    {Ok([i \in DOMAIN s |-> RowToContext(s[i])]) :
        s \in OrderByCreatedAt({r \in m["context_items"] : r.plan_id = plan_id})}

\* The ids callers ask for: ids the inputs use and ids nothing uses.
PlanIds == {"plan-a", "plan-x"}
TaskIds == {"task-a", "task-x"}

\* The values callers pass to the engine's append_*, per entity type.
EngineInputs(ty) ==
    CASE ty = "plan" ->
           {Plan("plan-a", "t1", "Pending", 1),
            Plan("plan-a", "t2", "Approved", 1)}
      [] ty = "task" -> {Task("task-a", "plan-a", "t1", "Pending", 1)}
      [] ty = "context" -> {ContextItem("fact-1", "plan-a", NONE, "c1", 1)}
      [] ty = "event" -> {Event("evt-1", "PlanCreated", NONE, 1)}
      [] ty = "review" -> {Review("rev-1", "plan-a", "Pending", 1)}

Snapshot == [mirror |-> mirror, fdata |-> fdata]

\* full_sync replays the logs in this order; clear_all deletes in this order.
SyncOrder == <<"plan", "task", "context", "event", "review">>
SyncDone == <<"clear">> \o SyncOrder

NextType(ty) ==
    CASE ty = "plan" -> "task"
      [] ty = "task" -> "context"
      [] ty = "context" -> "event"
      [] ty = "event" -> "review"

\* new and full_sync return ret, having completed the steps in done; new
\* hands the engine to its caller when it returns Ok.
SyncReturn(p, done, ret) ==
    /\ ReturnWith(p, done, ret)
    /\ eng' = [eng EXCEPT ![p] = IF call[p].op = "new" THEN ret.ok ELSE @]

\* Mutant: new without the is_initialized check: it goes on to open the
\* mirror whether or not the directory exists.
New_NoInitCheck(p) ==
    /\ pc[p] = "idle"
    /\ ~eng[p]
    /\ pre' = [pre EXCEPT ![p] = Snapshot]
    /\ pc' = [pc EXCEPT ![p] = "ensure_cache_synced"]
    /\ call' = [call EXCEPT ![p] = [op |-> "new", ty |-> "plan", arg |-> <<>>]]
    /\ res' = [res EXCEPT ![p] = NoRes]
    /\ UNCHANGED sessions
    /\ UNCHANGED <<dirExists, fexists, fdata, lock, mirror, eng, todo, issued,
                   granted, acked, unmirrored, written, faults>>

\* CrocEngine::new up to Cache::new: InvalidConfig when the directory does
\* not exist; a failure to open the database is a Cache error.
New(p) ==
    /\ pc[p] = "idle"
    /\ ~eng[p]
    /\ pre' = [pre EXCEPT ![p] = Snapshot]
    /\ LET failed(ret) ==
               /\ res' = [res EXCEPT ![p] = [op |-> "new", ty |-> "none",
                                             arg |-> <<>>, ret |-> ret]]
               /\ UNCHANGED <<pc, call>>
       IN \/ /\ ~dirExists
             /\ failed(Err("InvalidConfig", <<>>))
             /\ UNCHANGED faults
          \/ /\ dirExists
             /\ pc' = [pc EXCEPT ![p] = "ensure_cache_synced"]
             /\ call' = [call EXCEPT ![p] = [op |-> "new", ty |-> "plan",
                                            arg |-> <<>>]]
             /\ res' = [res EXCEPT ![p] = NoRes]
             /\ UNCHANGED faults
          \/ /\ dirExists /\ CanFail
             /\ Fault(p, "connect")
             /\ failed(Err("Cache", <<>>))
    /\ UNCHANGED sessions
    /\ UNCHANGED <<dirExists, fexists, fdata, lock, mirror, eng, todo, issued,
                   granted, acked, unmirrored, written>>

\* Mutant: the plans of the mirror are not looked at: the plan log is read at
\* every construction.
EnsureCacheSynced_Always(p) ==
    /\ pc[p] = "ensure_cache_synced"
    /\ pc' = [pc EXCEPT ![p] = "read_plans"]
    /\ UNCHANGED sessions
    /\ UNCHANGED <<dirExists, fexists, fdata, lock, mirror, pre, issued,
                   granted, acked, unmirrored, written, res, call, todo, eng,
                   faults>>

\* ensure_cache_synced, first half: get_all_plans; nothing more to do when
\* the mirror has a plan.
EnsureCacheSynced(p) ==
    /\ pc[p] = "ensure_cache_synced"
    /\ \/ /\ mirror["plans"] = {}
          /\ pc' = [pc EXCEPT ![p] = "read_plans"]
          /\ UNCHANGED <<res, call, todo, eng, faults>>
       \/ /\ mirror["plans"] # {}
          /\ SyncReturn(p, <<>>, Ok(NONE))
          /\ UNCHANGED faults
       \/ /\ CanFail
          /\ Fault(p, "get_all_plans")
          /\ SyncReturn(p, <<>>, Err("Sqlite", <<>>))
    /\ UNCHANGED sessions
    /\ UNCHANGED <<dirExists, fexists, fdata, lock, mirror, pre, issued,
                   granted, acked, unmirrored, written>>

\* Mutant: the plan log is not consulted; construction never syncs.
PlansNeedSync_Never(plans_in_storage) == FALSE

\* !plans_in_storage.is_empty()
PlansNeedSync(plans_in_storage) == plans_in_storage # <<>>

\* ensure_cache_synced, second half: read_plans, and full_sync when the log
\* has a plan.
ReadPlans(p) ==
    /\ pc[p] = "read_plans"
    /\ LET f == LogFile("plan")
           r == ReadJsonl("plan", fexists[f], fdata[f])
       IN \/ /\ r.ok /\ PlansNeedSync(r.val)
             /\ pc' = [pc EXCEPT ![p] = "clear_all"]
             /\ UNCHANGED <<res, call, todo, eng, faults>>
          \/ /\ r.ok /\ ~PlansNeedSync(r.val)
             /\ SyncReturn(p, <<>>, Ok(NONE))
             /\ UNCHANGED faults
          \/ /\ ~r.ok
             /\ SyncReturn(p, <<>>, r)
             /\ UNCHANGED faults
          \/ /\ fexists[f] /\ CanFail
             /\ Fault(p, "read_plans")
             /\ SyncReturn(p, <<>>, Err("Storage", <<"open">>))
    /\ UNCHANGED sessions
    /\ UNCHANGED <<dirExists, fexists, fdata, lock, mirror, pre, issued,
                   granted, acked, unmirrored, written>>

\* CrocEngine::full_sync called by the holder of an engine.
FullSync(p) ==
    /\ pc[p] = "idle"
    /\ eng[p]
    /\ pc' = [pc EXCEPT ![p] = "clear_all"]
    /\ call' = [call EXCEPT ![p] = [op |-> "full_sync", ty |-> "plan",
                                   arg |-> <<>>]]
    /\ res' = [res EXCEPT ![p] = NoRes]
    /\ pre' = [pre EXCEPT ![p] = Snapshot]
    /\ UNCHANGED sessions
    /\ UNCHANGED <<dirExists, fexists, fdata, lock, mirror, eng, todo, issued,
                   granted, acked, unmirrored, written, faults>>

\* Cache::clear_all: five DELETEs, one table after the other; when one fails
\* the tables before it are already empty.
ClearAll(p) ==
    /\ pc[p] = "clear_all"
    /\ \/ /\ mirror' = [t \in Tables |-> {}]
          /\ pc' = [pc EXCEPT ![p] = "sync_read"]
          /\ call' = [call EXCEPT ![p].arg = <<"clear">>]
          /\ UNCHANGED <<res, todo, eng, faults>>
       \/ /\ CanFail
          /\ Fault(p, "clear_all")
          /\ \E k \in 1..Len(SyncOrder) :
                mirror' = [t \in Tables |->
                              IF \E i \in 1..(k - 1) : t = Table(SyncOrder[i])
                              THEN {} ELSE mirror[t]]
          /\ SyncReturn(p, <<>>, Err("Sqlite", <<>>))
    /\ written' = [q \in Procs |-> {}]
    /\ UNCHANGED sessions
    /\ UNCHANGED <<dirExists, fexists, fdata, lock, pre, issued, granted,
                   acked, unmirrored>>

\* Mutant: the replay reads no record from any log.
SyncRead_Nothing(p) ==
    /\ pc[p] = "sync_read"
    /\ todo' = [todo EXCEPT ![p] = <<>>]
    /\ pc' = [pc EXCEPT ![p] = "sync_upsert"]
    /\ UNCHANGED sessions
    /\ UNCHANGED <<dirExists, fexists, fdata, lock, mirror, pre, issued,
                   granted, acked, unmirrored, written, res, call, eng, faults>>

\* full_sync: self.storage.read_plans()? .. read_reviews()?, the records of
\* one log, oldest first.
SyncRead(p) ==
    /\ pc[p] = "sync_read"
    /\ LET ty == call[p].ty
           f == LogFile(ty)
           r == ReadJsonl(ty, fexists[f], fdata[f])
       IN \/ /\ r.ok
             /\ todo' = [todo EXCEPT ![p] = r.val]
             /\ pc' = [pc EXCEPT ![p] = "sync_upsert"]
             /\ UNCHANGED <<res, call, eng, faults>>
          \/ /\ ~r.ok
             /\ SyncReturn(p, call[p].arg, r)
             /\ UNCHANGED faults
          \/ /\ fexists[f] /\ CanFail
             /\ Fault(p, "sync_read")
             /\ SyncReturn(p, call[p].arg, Err("Storage", <<"open">>))
    /\ UNCHANGED sessions
    /\ UNCHANGED <<dirExists, fexists, fdata, lock, mirror, pre, issued,
                   granted, acked, unmirrored, written>>

\* The loop has no record left: the next log, or Ok(()) after the last.
SyncAdvance(p) ==
    LET ty == call[p].ty
        done == Append(call[p].arg, ty)
    IN IF ty = SyncOrder[Len(SyncOrder)]
       THEN SyncReturn(p, done, Ok(NONE))
       ELSE /\ call' = [call EXCEPT ![p].ty = NextType(ty), ![p].arg = done]
            /\ pc' = [pc EXCEPT ![p] = "sync_read"]
            /\ UNCHANGED <<res, todo, eng>>

\* Mutant: the records of a log are replayed newest first.
SyncUpsert_NewestFirst(p) ==
    /\ pc[p] = "sync_upsert"
    /\ IF todo[p] = <<>>
       THEN SyncAdvance(p) /\ UNCHANGED mirror
       ELSE /\ mirror' = [mirror EXCEPT ![Table(call[p].ty)] =
                             InsertOrReplace(@, ToRow(call[p].ty,
                                                      todo[p][Len(todo[p])]))]
            /\ todo' = [todo EXCEPT ![p] = SubSeq(@, 1, Len(@) - 1)]
            /\ UNCHANGED <<pc, res, call, eng>>
    /\ UNCHANGED sessions
    /\ UNCHANGED <<dirExists, fexists, fdata, lock, pre, issued, granted,
                   acked, unmirrored, written, faults>>

\* full_sync: one turn of a for loop, self.cache.upsert_*(&record).await?
SyncUpsert(p) ==
    /\ pc[p] = "sync_upsert"
    /\ \/ /\ todo[p] = <<>>
          /\ SyncAdvance(p)
          /\ UNCHANGED <<mirror, faults>>
       \/ /\ todo[p] # <<>>
          /\ mirror' = [mirror EXCEPT ![Table(call[p].ty)] =
                           InsertOrReplace(@, ToRow(call[p].ty, Head(todo[p])))]
          /\ todo' = [todo EXCEPT ![p] = Tail(@)]
          /\ UNCHANGED <<pc, res, call, eng, faults>>
       \/ /\ todo[p] # <<>> /\ CanFail
          /\ Fault(p, "sync_upsert")
          /\ SyncReturn(p, call[p].arg, Err("Sqlite", <<>>))
          /\ UNCHANGED mirror
    /\ UNCHANGED sessions
    /\ UNCHANGED <<dirExists, fexists, fdata, lock, pre, issued, granted,
                   acked, unmirrored, written>>

\* The records appended to the logs so far, whole or cut short.
LogRecords ==
    Sum([f \in Files |->
            Cardinality({i \in 1..Len(fdata[f]) :
                            /\ fdata[f][i].k = "json"
                            /\ fdata[f][i] # JsonChunk(InitEventJson)})],
        Files)

\* The engine has reads for plans, tasks and context items (get_plan ..
\* get_context_for_task) and none for events and reviews.
Readable(ty, e) == IF ty \in {"plan", "task", "context"} THEN {<<ty, e>>} ELSE {}

\* What is left of the entities in w once a write to the id of type ty
\* has begun.
Unwritten(w, ty, id) == {x \in w : ~(x[1] = ty /\ x[2].id = id)}

\* Mutant: the mirror is written first: the row is upserted when the call
\* starts, before the log append.
EngineAppend_MirrorFirst(p, ty, e) ==
    /\ pc[p] = "idle"
    /\ eng[p]
    /\ LogRecords < MaxEngineAppends
    /\ call' = [call EXCEPT ![p] = [op |-> "append", ty |-> ty, arg |-> e]]
    /\ pc' = [pc EXCEPT ![p] = "open"]
    /\ res' = [res EXCEPT ![p] = NoRes]
    /\ pre' = [pre EXCEPT ![p] = Snapshot]
    /\ written' = [q \in Procs |-> Unwritten(written[q], ty, e.id)]
    /\ mirror' = [mirror EXCEPT ![Table(ty)] = InsertOrReplace(@, ToRow(ty, e))]
    /\ UNCHANGED sessions
    /\ UNCHANGED <<dirExists, fexists, fdata, lock, eng, todo, issued,
                   granted, acked, unmirrored, faults>>

\* CrocEngine::append_plan .. append_review: the log append comes first (the
\* steps Open .. Unlock), the mirror upsert after it.
EngineAppend(p, ty, e) ==
    /\ pc[p] = "idle"
    /\ eng[p]
    /\ LogRecords < MaxEngineAppends
    /\ call' = [call EXCEPT ![p] = [op |-> "append", ty |-> ty, arg |-> e]]
    /\ pc' = [pc EXCEPT ![p] = "open"]
    /\ res' = [res EXCEPT ![p] = NoRes]
    /\ pre' = [pre EXCEPT ![p] = Snapshot]
    /\ written' = [q \in Procs |-> Unwritten(written[q], ty, e.id)]
    /\ UNCHANGED sessions
    /\ UNCHANGED <<dirExists, fexists, fdata, lock, mirror, eng, todo, issued,
                   granted, acked, unmirrored, faults>>

\* Mutant: the upsert is left to a later flush: the call returns Ok with the
\* mirror as it was.
Upsert_Deferred(p) ==
    /\ pc[p] = "upsert"
    /\ Return(p, Ok(NONE))
    /\ written' = [written EXCEPT ![p] = @ \cup Readable(call[p].ty, call[p].arg)]
    /\ UNCHANGED sessions
    /\ UNCHANGED <<dirExists, fexists, fdata, lock, mirror, eng, pre, issued,
                   granted, acked, unmirrored, faults>>

\* self.cache.upsert_*(record).await?; Ok(())
Upsert(p) ==
    /\ pc[p] = "upsert"
    /\ \/ /\ mirror' = [mirror EXCEPT ![Table(call[p].ty)] =
                           InsertOrReplace(@, ToRow(call[p].ty, call[p].arg))]
          /\ Return(p, Ok(NONE))
          /\ written' = [written EXCEPT ![p] = @ \cup Readable(call[p].ty, call[p].arg)]
          /\ UNCHANGED <<unmirrored, faults>>
       \/ /\ CanFail
          /\ Fault(p, "upsert")
          /\ unmirrored' = unmirrored \cup {<<call[p].ty, call[p].arg>>}
          /\ Return(p, Err("Sqlite", <<>>))
          /\ UNCHANGED <<mirror, written>>
    /\ UNCHANGED sessions
    /\ UNCHANGED <<dirExists, fexists, fdata, lock, eng, pre, issued, granted,
                   acked>>

\* Mutant: absence is reported as a failure of the mirror.
NotFound_AsCacheError(entity_type, id) ==
    Err("Cache", <<entity_type, id>>)

\* CrocError::NotFound { entity_type, id }
NotFound(entity_type, id) == Err("NotFound", <<entity_type, id>>)

\* Option::ok_or_else
OkOrElse(r, err) == IF r.val = <<>> THEN err ELSE Ok(r.val[1])

\* SQLite evaluates a query on the rows of the table alone: the read p makes
\* is the read it made last, on a mirror with the same rows.
Repeated(p, op, arg) ==
    /\ res[p].op = op
    /\ res[p].arg = arg
    /\ res[p].ret.ok
    /\ pre[p].mirror = mirror

\* A read of the mirror by the holder of an engine: it returns one of rets
\* (what it returned before when it is repeated), or a Sqlite error when the
\* query fails.
Query(p, op, ty, arg, rets) ==
    /\ pc[p] = "idle"
    /\ eng[p]
    /\ \/ /\ \E ret \in rets :
                /\ Repeated(p, op, arg) => ret = res[p].ret
                /\ res' = [res EXCEPT ![p] = [op |-> op, ty |-> ty,
                                              arg |-> arg, ret |-> ret]]
          /\ UNCHANGED faults
       \/ /\ CanFail
          /\ Fault(p, op)
          /\ res' = [res EXCEPT ![p] = [op |-> op, ty |-> ty, arg |-> arg,
                                       ret |-> Err("Sqlite", <<>>)]]
    /\ pre' = [pre EXCEPT ![p] = Snapshot]
    /\ UNCHANGED sessions
    /\ UNCHANGED <<dirExists, fexists, fdata, lock, mirror, eng, pc, call,
                   todo, issued, granted, acked, unmirrored, written>>

GetPlan(p, id) ==
    Query(p, "get_plan", "plan", id,
          {OkOrElse(CacheGetPlan(mirror, id), NotFound("Plan", id))})

GetPlanOpt(p, id) ==
    Query(p, "get_plan_opt", "plan", id, {CacheGetPlan(mirror, id)})

GetTask(p, id) ==
    Query(p, "get_task", "task", id,
          {OkOrElse(CacheGetTask(mirror, id), NotFound("Task", id))})

GetTaskOpt(p, id) ==
    Query(p, "get_task_opt", "task", id, {CacheGetTask(mirror, id)})

GetTasksForPlan(p, plan_id) ==
    Query(p, "get_tasks_for_plan", "task", plan_id,
          CacheGetTasksForPlan(mirror, plan_id))

GetContextForPlan(p, plan_id) ==
    Query(p, "get_context_for_plan", "context", plan_id,
          CacheGetContextForPlan(mirror, plan_id))

\* The process that holds the engine exits.
Drop(p) ==
    /\ pc[p] = "idle"
    /\ eng[p]
    /\ eng' = [eng EXCEPT ![p] = FALSE]
    /\ res' = [res EXCEPT ![p] = NoRes]
    /\ pre' = [pre EXCEPT ![p] = NoPre]
    /\ written' = [written EXCEPT ![p] = {}]
    /\ UNCHANGED sessions
    /\ UNCHANGED <<dirExists, fexists, fdata, lock, mirror, pc, call, todo,
                   issued, granted, acked, unmirrored, faults>>

\* The .gitignore that init.rs writes lists cache.db: a fresh checkout of the
\* project has the logs and no mirror file, and Cache::new creates it empty.
CloneProject ==
    /\ dirExists
    /\ \A p \in Procs : pc[p] = "idle" /\ ~eng[p]
    /\ \E t \in Tables : mirror[t] # {}
    /\ mirror' = [t \in Tables |-> {}]
    /\ UNCHANGED sessions
    /\ UNCHANGED <<dirExists, fexists, fdata, lock, eng, pc, call, todo, res,
                   pre, issued, granted, acked, unmirrored, written, faults>>

\* One process that uses the project through the engine.
NextEngine ==
    \/ InitExec
    \/ CloneProject
    \/ \E p \in EngineProcs :
          \/ New(p)
          \/ EnsureCacheSynced(p)
          \/ ReadPlans(p)
          \/ FullSync(p)
          \/ ClearAll(p)
          \/ SyncRead(p)
          \/ SyncUpsert(p)
          \/ \E ty \in ETypes : \E e \in EngineInputs(ty) : EngineAppend(p, ty, e)
          \/ Open(p)
          \/ Lock(p)
          \/ Write(p)
          \/ Newline(p)
          \/ Unlock(p)
          \/ Upsert(p)
          \/ \E id \in PlanIds : GetPlan(p, id) \/ GetPlanOpt(p, id)
          \/ \E id \in TaskIds : GetTask(p, id) \/ GetTaskOpt(p, id)
          \/ \E id \in PlanIds : GetTasksForPlan(p, id) \/ GetContextForPlan(p, id)
          \/ Drop(p)

SpecEngine == Init /\ [][NextEngine]_vars

\* Cache::get_context_for_task: WHERE subtask_id = ?, which no row with a
\* NULL subtask_id satisfies.
CacheGetContextForTask(m, subtask_id) ==
    {Ok([i \in DOMAIN s |-> RowToContext(s[i])]) :
        s \in OrderByCreatedAt({r \in m["context_items"] :
                                   r.subtask_id = subtask_id})}

GetContextForTask(p, subtask_id) ==
    Query(p, "get_context_for_task", "context", subtask_id,
          CacheGetContextForTask(mirror, subtask_id))

\* The ledger of one plan: a process that appends the plan in several of its
\* statuses, and context items, and reads them back.  ContextItem's ids are
\* the millisecond of their creation (schemas.rs generate_id): two items made
\* in one millisecond have one id.
LedgerTypes == {"plan", "context"}
SubtaskIds == {"task-a.1"}

LedgerInputs(ty) ==
    CASE ty = "plan" ->
           {Plan("plan-a", "t1", st, 1) : st \in {"Pending", "Complete", "Cancelled"}}
      [] ty = "context" ->
           {ContextItem("fact-1", "plan-a", "task-a.1", "c1", 1),
            ContextItem("fact-1", "plan-a", "task-a.1", "c2", 1)}

NextLedger ==
    \/ InitExec
    \/ \E p \in EngineProcs :
          \/ New(p)
          \/ EnsureCacheSynced(p)
          \/ ReadPlans(p)
          \/ \E ty \in LedgerTypes : \E e \in LedgerInputs(ty) : EngineAppend(p, ty, e)
          \/ Open(p)
          \/ Lock(p)
          \/ Write(p)
          \/ Newline(p)
          \/ Unlock(p)
          \/ Upsert(p)
          \/ \E id \in PlanIds : GetPlan(p, id)
          \/ \E id \in PlanIds : GetContextForPlan(p, id)
          \/ \E id \in SubtaskIds : GetContextForTask(p, id)

SpecLedger == Init /\ [][NextLedger]_vars

(***************************************************************************)
(* Properties of the engine.                                               *)
(***************************************************************************)
\* What a read of the log of type ty returns in this state.
Decoded(ty) == ReadJsonl(ty, fexists[LogFile(ty)], fdata[LogFile(ty)])

\* The log file of type ty holds the text of the record e followed by its
\* line terminator.
InLog(ty, e) ==
    \E i \in 1..(Len(fdata[LogFile(ty)]) - 1) :
        /\ fdata[LogFile(ty)][i] = JsonChunk(ToJson(ty, e))
        /\ fdata[LogFile(ty)][i + 1] = NlChunk

\* The rows of the last record of each id in recs.
LastPerId(ty, recs) ==
    {ToRow(ty, recs[i]) :
        i \in {k \in 1..Len(recs) :
                  \A j \in (k + 1)..Len(recs) : recs[j].id # recs[k].id}}

InLogAppend(p) == pc[p] \in {"open", "lock", "write", "newline", "unlock"}

\* C4: an engine append writes to the log first and touches the mirror only
\* after the log append returned Ok: while the log append is running the
\* mirror is as it was when the call started; when the upsert is about to
\* run the log file is what it was plus the line of the record; and when the
\* log append fails the engine returns that error with the mirror as it was
\* when the call started.
C4_LogFirstThenMirror ==
    \A p \in Procs :
        /\ (call[p].op = "append" /\ InLogAppend(p)) => mirror = pre[p].mirror
        /\ (call[p].op = "append" /\ pc[p] = "upsert") =>
              /\ mirror = pre[p].mirror
              /\ fdata[LogFile(call[p].ty)] =
                    pre[p].fdata[LogFile(call[p].ty)]
                        \o <<JsonChunk(ToJson(call[p].ty, call[p].arg)), NlChunk>>
        /\ (res[p].op = "append" /\ ~res[p].ret.ok) =>
              /\ res[p].ret.err \in {"Storage", "Sqlite"}
              /\ mirror = pre[p].mirror
        /\ (res[p].op = "append" /\ res[p].ret.ok) =>
              /\ InLog(res[p].ty, res[p].arg)
              /\ ToRow(res[p].ty, res[p].arg) \in mirror[Table(res[p].ty)]

\* C4's case: an engine append whose log append failed, in a project whose
\* mirror already held a row.
C4_Witness ==
    \E p \in Procs :
        /\ res[p].op = "append"
        /\ ~res[p].ret.ok
        /\ res[p].ret.err = "Storage"
        /\ \E t \in Tables : mirror[t] # {}

SyncCompleted(p) ==
    /\ res[p].op \in {"new", "full_sync"}
    /\ res[p].ret.ok
    /\ res[p].arg = SyncDone

\* C5: when the log append of an engine append succeeded and the mirror
\* upsert failed, the call returns an error, the record is and stays in the
\* log, and after a full sync that completes the mirror holds the row of the
\* last log record with the record's id (the record itself when no later
\* record has its id).
C5_FailedUpsertRepairedBySync ==
    /\ \A p \in Procs :
          (res[p].op = "append" /\ ~res[p].ret.ok /\ res[p].ret.err = "Sqlite")
              => <<res[p].ty, res[p].arg>> \in unmirrored
    /\ \A u \in unmirrored :
          /\ InLog(u[1], u[2])
          /\ \A p \in Procs :
                SyncCompleted(p) =>
                    /\ Decoded(u[1]).ok
                    /\ \E r \in mirror[Table(u[1])] : r.id = u[2].id
                    /\ \A r \in mirror[Table(u[1])] :
                          r.id = u[2].id => r \in LastPerId(u[1], Decoded(u[1]).val)
                    /\ (\E r \in LastPerId(u[1], Decoded(u[1]).val) :
                            r = ToRow(u[1], u[2]))
                          => ToRow(u[1], u[2]) \in mirror[Table(u[1])]

\* C5's case: a record whose mirror upsert failed is in the mirror after a
\* full sync completed.
C5_Witness ==
    \E p \in Procs : \E u \in unmirrored :
        /\ SyncCompleted(p)
        /\ ToRow(u[1], u[2]) \in mirror[Table(u[1])]

\* The state in which the call of p started had no plan in the mirror and a
\* plan log that reads as one record or more.
StartedWithPlansToSync(p) ==
    LET r == ReadJsonl("plan", TRUE, pre[p].fdata[LogFile("plan")])
    IN pre[p].mirror["plans"] = {} /\ r.ok /\ r.val # <<>>

\* C6: a construction that starts with zero plans in the mirror and one plan
\* or more in the plan log runs a full sync before it returns: when it
\* returns Ok the sync has completed, and when no I/O failure occurred and it
\* returns an error the error came from inside the sync, after the mirror was
\* cleared.
C6_ConstructionSyncsFirst ==
    \A p \in Procs :
        (res[p].op = "new" /\ StartedWithPlansToSync(p)) =>
            /\ res[p].ret.ok => res[p].arg = SyncDone
            /\ (~res[p].ret.ok /\ faults = 0) =>
                  /\ res[p].arg # <<>>
                  /\ res[p].arg[1] = "clear"
            /\ eng[p] => res[p].ret.ok

\* C6's case: a construction that found no plan in the mirror and a plan in
\* the log has returned Ok, and the mirror now has the plan.
C6_Witness ==
    \E p \in Procs :
        /\ res[p].op = "new"
        /\ StartedWithPlansToSync(p)
        /\ res[p].ret.ok
        /\ mirror["plans"] # {}

\* The mirror table that holds recs written one after the other through the
\* engine's append path.
RECURSIVE Upserted(_, _, _)
Upserted(ty, recs, tbl) ==
    IF recs = <<>> THEN tbl
    ELSE Upserted(ty, Tail(recs), InsertOrReplace(tbl, ToRow(ty, Head(recs))))

\* The logs as the call of p found them, read as records of their types.
ReadAtStart(p, ty) == ReadJsonl(ty, TRUE, pre[p].fdata[LogFile(ty)])

\* The mirror had every log record of the call's starting state been written
\* through the append path.
AppendPathMirror(p) ==
    [t \in Tables |->
        LET ty == CHOOSE x \in ETypes : Table(x) = t
        IN IF ReadAtStart(p, ty).ok
           THEN Upserted(ty, ReadAtStart(p, ty).val, {})
           ELSE {}]

\* C7 as claimed: when the logs hold records of plans, tasks or context
\* items and the mirror is empty, and no I/O failure occurs, constructing
\* the engine returns Ok and the reads by id and by plan then return what
\* they would return had every log record been written through the engine's
\* append path.
C7_ConstructThenReadAsAppended ==
    \A p \in Procs :
        (/\ res[p].op = "new"
         /\ faults = 0
         /\ \A t \in Tables : pre[p].mirror[t] = {}
         /\ \E ty \in {"plan", "task", "context"} : pre[p].fdata[LogFile(ty)] # <<>>)
            => /\ res[p].ret.ok
               /\ \A id \in PlanIds :
                     /\ CacheGetPlan(mirror, id)
                           = CacheGetPlan(AppendPathMirror(p), id)
                     /\ CacheGetTasksForPlan(mirror, id)
                           = CacheGetTasksForPlan(AppendPathMirror(p), id)
                     /\ CacheGetContextForPlan(mirror, id)
                           = CacheGetContextForPlan(AppendPathMirror(p), id)
               /\ \A id \in TaskIds :
                     CacheGetTask(mirror, id) = CacheGetTask(AppendPathMirror(p), id)

\* C8: a full sync first empties every table of the mirror, and when it has
\* completed every log reads without error and each table holds exactly one
\* row per id of its log, the row of the last log record with that id.
C8_FullSyncRebuildsMirror ==
    \A p \in Procs :
        /\ (pc[p] = "sync_read" /\ call[p].arg = <<"clear">>) =>
              \A t \in Tables : mirror[t] = {}
        /\ SyncCompleted(p) =>
              \A ty \in ETypes :
                  /\ Decoded(ty).ok
                  /\ mirror[Table(ty)] = LastPerId(ty, Decoded(ty).val)

\* C8's case: a full sync has completed on a plan log of two records with
\* one id and different fields.
C8_Witness ==
    \E p \in Procs :
        /\ SyncCompleted(p)
        /\ Len(Decoded("plan").val) = 2
        /\ Decoded("plan").val[1].id = Decoded("plan").val[2].id
        /\ Decoded("plan").val[1] # Decoded("plan").val[2]

\* The mirror has no plan (no task) under the id the last read of p asked for.
AbsentId(p) ==
    \A r \in mirror[Table(res[p].ty)] : r.id # res[p].arg

\* C9: a read of a plan or task id that the mirror does not hold returns
\* Ok(None) through get_plan_opt / get_task_opt and the error NotFound with
\* the entity type ("Plan" or "Task") and the id through get_plan / get_task;
\* the one other result is the Sqlite error of a query that failed.
C9_AbsentIdIsNoneOrNotFound ==
    \A p \in Procs :
        LET failedQuery == faults > 0 /\ res[p].ret = Err("Sqlite", <<>>) IN
        /\ (res[p].op \in {"get_plan_opt", "get_task_opt"} /\ AbsentId(p)) =>
              (res[p].ret = [ok |-> TRUE, val |-> <<>>] \/ failedQuery)
        /\ (res[p].op = "get_plan" /\ AbsentId(p)) =>
              \/ res[p].ret = [ok |-> FALSE, err |-> "NotFound",
                               info |-> <<"Plan", res[p].arg>>]
              \/ failedQuery
        /\ (res[p].op = "get_task" /\ AbsentId(p)) =>
              \/ res[p].ret = [ok |-> FALSE, err |-> "NotFound",
                               info |-> <<"Task", res[p].arg>>]
              \/ failedQuery

\* C9's case: get_plan of an id the mirror does not hold, in a mirror that
\* holds another plan, has returned NotFound.
C9_Witness ==
    \E p \in Procs :
        /\ res[p].op = "get_plan"
        /\ AbsentId(p)
        /\ mirror["plans"] # {}
        /\ ~res[p].ret.ok
        /\ res[p].ret.err = "NotFound"

\* C10: after the upsert of an engine append, the table holds exactly one row
\* under the entity's id and that row has every field of the upserted
\* entity (a plan or task reads back equal to it); the rows of other ids and
\* the other tables are as before; and when the table already held that
\* very row the mirror is as it was.
C10_UpsertReplacesAllFields ==
    \A p \in Procs :
        (res[p].op = "append" /\ res[p].ret.ok) =>
            LET ty == res[p].ty
                e == res[p].arg
                t == Table(ty)
            IN /\ {r \in mirror[t] : r.id = e.id} = {ToRow(ty, e)}
               /\ {r \in mirror[t] : r.id # e.id}
                     = {r \in pre[p].mirror[t] : r.id # e.id}
               /\ \A t2 \in Tables \ {t} : mirror[t2] = pre[p].mirror[t2]
               /\ ToRow(ty, e) \in pre[p].mirror[t] => mirror = pre[p].mirror
               /\ ty = "plan" => CacheGetPlan(mirror, e.id) = Ok(<<e>>)
               /\ ty = "task" => CacheGetTask(mirror, e.id) = Ok(<<e>>)

\* C10's case: an upsert of an id the table already held with other field
\* values.
C10_Witness ==
    \E p \in Procs :
        /\ res[p].op = "append"
        /\ res[p].ret.ok
        /\ \E r \in pre[p].mirror[Table(res[p].ty)] :
              /\ r.id = res[p].arg.id
              /\ r # ToRow(res[p].ty, res[p].arg)

\* C11 as claimed: engine construction fails with InvalidConfig whenever the
\* log files are absent (stated for constructions that meet no I/O failure).
C11_NoLogFilesIsInvalidConfig ==
    \A p \in Procs :
        (res[p].op = "new" /\ faults = 0 /\ \A f \in Files : ~fexists[f])
            => res[p].ret = [ok |-> FALSE, err |-> "InvalidConfig", info |-> <<>>]

\* C11 as amended: engine construction fails with InvalidConfig when the
\* project directory does not exist, and then returns at once: the mirror is
\* not opened (no failure of the mirror is returned in its place, and the
\* mirror is as it was), no sync step has run and no engine is handed out.
\* It fails so in that case only: when the directory exists now, project
\* initialization has made it since the call (the logs are not as they were).
C11_NoDirectoryIsInvalidConfig ==
    \A p \in Procs :
        LET invalidConfig == [ok |-> FALSE, err |-> "InvalidConfig", info |-> <<>>]
        IN res[p].op = "new" =>
              /\ ~dirExists => res[p].ret = invalidConfig
              /\ res[p].ret = invalidConfig =>
                    /\ mirror = pre[p].mirror
                    /\ res[p].arg = <<>>
                    /\ pc[p] = "idle"
                    /\ ~eng[p]
                    /\ \A f \in Files : pre[p].fdata[f] = <<>>
                    /\ fdata = pre[p].fdata => ~dirExists

\* C11's case: a construction in a project whose directory does not exist
\* has returned InvalidConfig.
C11_Witness ==
    \E p \in Procs :
        /\ res[p].op = "new"
        /\ ~dirExists
        /\ ~res[p].ret.ok
        /\ res[p].ret.err = "InvalidConfig"
        /\ pc[p] = "idle"

\* C15: the log is append-only: whatever operation a process has called
\* (an append of any entity type, a read, engine construction, a full sync),
\* in progress or returned, the content each log file had when the call
\* started is a prefix of its content now, and a log file that held a record
\* exists.
C15_LogIsAppendOnly ==
    \A p \in Procs : \A f \in Files :
        /\ IsPrefix(pre[p].fdata[f], fdata[f])
        /\ fdata[f] # <<>> => fexists[f]

\* C15's case: a full sync that started over logs holding two records has
\* completed.
C15_Witness ==
    \E p \in Procs :
        /\ SyncCompleted(p)
        /\ LogRecords = 2
        /\ \E f \in Files : Len(pre[p].fdata[f]) >= 4
        /\ fdata = pre[p].fdata

\* A read by p that failed because the query itself failed.
FailedQuery(p) ==
    faults > 0 /\ res[p].ret = [ok |-> FALSE, err |-> "Sqlite", info |-> <<>>]

\* The records a read of p returned as a list.
Returned(p) == {res[p].ret.val[i] : i \in 1..Len(res[p].ret.val)}

\* C16: read-your-writes in one process: when an engine append of an entity
\* has returned Ok, and since then no write to its id has begun and the
\* mirror has not been wiped, a read through the same engine returns the
\* entity: get_plan / get_task return it, get_plan_opt / get_task_opt return
\* Some of it, get_tasks_for_plan / get_context_for_plan return a list that
\* holds it; the one other result is the Sqlite error of a query that failed.
C16_ReadYourWrites ==
    \A p \in Procs : \A x \in written[p] :
        LET ty == x[1]
            e == x[2]
        IN /\ (res[p].op \in {"get_plan", "get_task"}
                 /\ res[p].ty = ty /\ res[p].arg = e.id)
                => (res[p].ret = [ok |-> TRUE, val |-> e] \/ FailedQuery(p))
           /\ (res[p].op \in {"get_plan_opt", "get_task_opt"}
                 /\ res[p].ty = ty /\ res[p].arg = e.id)
                => (res[p].ret = [ok |-> TRUE, val |-> <<e>>] \/ FailedQuery(p))
           /\ (res[p].op \in {"get_tasks_for_plan", "get_context_for_plan"}
                 /\ res[p].ty = ty /\ res[p].arg = e.plan_id)
                => ((res[p].ret.ok /\ e \in Returned(p)) \/ FailedQuery(p))

\* C16's case: after two engine appends of one plan id, the second with
\* other field values, get_plan has returned the second.
C16_Witness ==
    \E p \in Procs :
        /\ res[p].op = "get_plan"
        /\ res[p].ret.ok
        /\ <<"plan", res[p].ret.val>> \in written[p]
        /\ Decoded("plan").ok
        /\ Len(Decoded("plan").val) = 2
        /\ Decoded("plan").val[1].id = res[p].arg
        /\ Decoded("plan").val[1] # res[p].ret.val
        /\ Decoded("plan").val[2] = res[p].ret.val

\* The place of a status on the way Pending, Approved, Running, Complete.
StatusRank(st) ==
    CASE st = "Pending" -> 1
      [] st = "Approved" -> 2
      [] st = "Running" -> 3
      [] st = "Complete" -> 4
      [] st = "Cancelled" -> 5

\* A plan may stay in its status, and may leave a status other than Complete
\* and Cancelled for a later one or for Cancelled.
MovesForward(a, b) ==
    \/ a = b
    \/ a \notin {"Complete", "Cancelled"} /\ StatusRank(b) > StatusRank(a)

\* C13 as claimed: over every step, the status a read of a plan id returns
\* only moves forward through Pending, Approved, Running, Complete, or to
\* Cancelled from a status that is not terminal; it never leaves Complete or
\* Cancelled and never goes back.
C13_PlanStatusMovesForward ==
    [][\A id \in PlanIds :
          LET a == CacheGetPlan(mirror, id).val
              b == CacheGetPlan(mirror', id).val
          IN (a # <<>> /\ b # <<>>) => MovesForward(a[1].status, b[1].status)]_vars

\* The context items that reads by plan and by subtask return under id.
ContextRead(m, id) == {RowToContext(r) : r \in {x \in m["context_items"] : x.id = id}}

\* C14 as claimed: a context item is immutable once created: over every
\* step, when reads return an item under an id before the step and after it,
\* they return the same content and the same other fields.
C14_ContextItemImmutable ==
    [][\A r \in mirror["context_items"] :
          \A c \in ContextRead(mirror', r.id) : c = RowToContext(r)]_vars

(***************************************************************************)
(* Session names (tmux.rs).  A string is the sequence of its characters,   *)
(* so that strip_prefix and split are computed on the characters.          *)
(***************************************************************************)
PlanLabel == <<"p", "l", "a", "n", "-">>
TaskLabel == <<"t", "a", "s", "k", "-">>
CrocForeman == <<"c", "r", "o", "c", "-", "f", "o", "r", "e", "m", "a", "n", "-">>
CrocReviewer == <<"c", "r", "o", "c", "-", "r", "e", "v", "i", "e", "w", "e", "r", "-">>
CrocWorker == <<"c", "r", "o", "c", "-", "w", "o", "r", "k", "e", "r", "-">>

\* str::starts_with.
StartsWith(s, prefix) ==
    Len(s) >= Len(prefix) /\ SubSeq(s, 1, Len(prefix)) = prefix

\* Mutant: every leading occurrence of the label is removed
\* (trim_start_matches), not one.
RECURSIVE StripPrefix_All(_, _)
StripPrefix_All(s, prefix) ==
    IF StartsWith(s, prefix)
    THEN LET rest == SubSeq(s, Len(prefix) + 1, Len(s))
         IN  IF StartsWith(rest, prefix) THEN StripPrefix_All(rest, prefix)
                                         ELSE <<rest>>
    ELSE <<>>

\* str::strip_prefix: Some(the rest) when s starts with the prefix, else None.
StripPrefix(s, prefix) ==
    IF StartsWith(s, prefix) THEN <<SubSeq(s, Len(prefix) + 1, Len(s))>>
                             ELSE <<>>

\* Option::unwrap_or.
UnwrapOr(opt, default) == IF opt = <<>> THEN default ELSE opt[1]

\* The positions of the character ch in s.
IndicesOf(s, ch) == {i \in 1..Len(s) : s[i] = ch}

\* Mutant: the first piece of the split (split('.').next()).
SplitNextBack_First(s, ch) ==
    IF IndicesOf(s, ch) = {} THEN s
    ELSE SubSeq(s, 1, (CHOOSE i \in IndicesOf(s, ch) :
                          \A j \in IndicesOf(s, ch) : i <= j) - 1)

\* s.split(ch).next_back(): the piece after the last ch, the whole of s when
\* it has no ch; always Some.
SplitNextBack(s, ch) ==
    IF IndicesOf(s, ch) = {} THEN s
    ELSE SubSeq(s, (CHOOSE i \in IndicesOf(s, ch) :
                       \A j \in IndicesOf(s, ch) : j <= i) + 1, Len(s))

\* foreman_session_name.
ForemanSessionName(plan_id) ==
    CrocForeman \o UnwrapOr(StripPrefix(plan_id, PlanLabel), plan_id)

\* reviewer_session_name.
ReviewerSessionName(plan_id) ==
    CrocReviewer \o UnwrapOr(StripPrefix(plan_id, PlanLabel), plan_id)

\* worker_session_name: strip_prefix("task-").and_then(split('.').next_back())
\* .unwrap_or(task_id).
WorkerSessionName(plan_id, task_id) ==
    LET plan_short == UnwrapOr(StripPrefix(plan_id, PlanLabel), plan_id)
        stripped == StripPrefix(task_id, TaskLabel)
        task_short == IF stripped = <<>> THEN task_id
                      ELSE SplitNextBack(stripped[1], ".")
    IN  CrocWorker \o plan_short \o <<"-">> \o task_short

\* The ids the names are computed for: up to MaxPlanPieces, MaxTaskPieces
\* pieces put end to end.
MaxPlanPieces == 2
MaxTaskPieces == 4
PlanPieces == {PlanLabel, <<"a">>, <<"b", "1">>}
TaskPieces == {TaskLabel, <<"a">>, <<".", "1">>, <<".", "2">>}

RECURSIVE Concat(_)
Concat(pieces) ==
    IF pieces = <<>> THEN <<>> ELSE Head(pieces) \o Concat(Tail(pieces))

IdsFrom(pieces, max) ==
    {Concat(ps) : ps \in UNION {[1..n -> pieces] : n \in 0..max}}

NamePlanIds == IdsFrom(PlanPieces, MaxPlanPieces)
NameTaskIds == IdsFrom(TaskPieces, MaxTaskPieces)

\* One call of a naming function is about to be made by process 1.
InitNames ==
    /\ dirExists = FALSE
    /\ fexists = [f \in Files |-> FALSE]
    /\ fdata = [f \in Files |-> <<>>]
    /\ lock = [f \in Files |-> {}]
    /\ mirror = [t \in Tables |-> {}]
    /\ eng = [p \in Procs |-> FALSE]
    /\ pc = [p \in Procs |-> "idle"]
    /\ \/ \E op \in {"foreman_session_name", "reviewer_session_name"} :
             \E plan_id \in NamePlanIds :
                call = [p \in Procs |->
                           IF p = 1
                           THEN [op |-> op, ty |-> "none", arg |-> <<plan_id>>]
                           ELSE NoCall]
       \/ \E plan_id \in NamePlanIds : \E task_id \in NameTaskIds :
             call = [p \in Procs |->
                        IF p = 1
                        THEN [op |-> "worker_session_name", ty |-> "none",
                              arg |-> <<plan_id, task_id>>]
                        ELSE NoCall]
    /\ todo = [p \in Procs |-> <<>>]
    /\ res = [p \in Procs |-> NoRes]
    /\ pre = [p \in Procs |-> NoPre]
    /\ issued = [p \in Procs |-> <<>>]
    /\ granted = [f \in Files |-> <<>>]
    /\ acked = [p \in Procs |-> <<>>]
    /\ unmirrored = {}
    /\ written = [p \in Procs |-> {}]
    /\ sessions = {}
    /\ faults = 0

\* The call returns the name.
NameReturn(p, name) ==
    /\ pc[p] = "idle"
    /\ ReturnWith(p, call[p].arg, name)
    /\ UNCHANGED <<dirExists, fexists, fdata, lock, mirror, eng, pre, issued,
                   granted, acked, unmirrored, written, sessions, faults>>

ForemanSessionNameCall(p) ==
    /\ call[p].op = "foreman_session_name"
    /\ NameReturn(p, ForemanSessionName(call[p].arg[1]))

ReviewerSessionNameCall(p) ==
    /\ call[p].op = "reviewer_session_name"
    /\ NameReturn(p, ReviewerSessionName(call[p].arg[1]))

WorkerSessionNameCall(p) ==
    /\ call[p].op = "worker_session_name"
    /\ NameReturn(p, WorkerSessionName(call[p].arg[1], call[p].arg[2]))

NextNames ==
    \E p \in Procs :
       \/ ForemanSessionNameCall(p)
       \/ ReviewerSessionNameCall(p)
       \/ WorkerSessionNameCall(p)

SpecNames == InitNames /\ [][NextNames]_vars

\* The name returned by the last naming call of p, and what follows its
\* first n characters.
Named(p, op) == res[p].op = op
After(s, n) == SubSeq(s, n + 1, Len(s))

\* C21: the foreman and the reviewer session name of a plan is "croc-foreman-"
\* / "croc-reviewer-" followed by the plan id with one leading "plan-" label
\* removed when the id starts with it, and by the plan id unchanged otherwise.
C21_ForemanReviewerNames ==
    \A p \in Procs :
       /\ Named(p, "foreman_session_name") =>
             LET id == res[p].arg[1]
                 bare == After(res[p].ret, Len(CrocForeman))
             IN  /\ res[p].ret = CrocForeman \o bare
                 /\ IF StartsWith(id, PlanLabel) THEN id = PlanLabel \o bare
                                                 ELSE id = bare
       /\ Named(p, "reviewer_session_name") =>
             LET id == res[p].arg[1]
                 bare == After(res[p].ret, Len(CrocReviewer))
             IN  /\ res[p].ret = CrocReviewer \o bare
                 /\ IF StartsWith(id, PlanLabel) THEN id = PlanLabel \o bare
                                                 ELSE id = bare

\* A foreman name was computed for an id that carries the label twice: one
\* label is left in the name.
C21_Witness ==
    /\ Named(1, "foreman_session_name")
    /\ res[1].arg[1] = PlanLabel \o PlanLabel
    /\ res[1].ret = CrocForeman \o PlanLabel

\* bare is id with one leading label removed when id starts with the label,
\* and is id otherwise.
BareOf(id, label, bare) ==
    IF StartsWith(id, label) THEN id = label \o bare ELSE id = bare

\* seg is what follows the final dot of rest (the whole of rest when it has
\* no dot).
AfterFinalDot(rest, seg) ==
    /\ IndicesOf(seg, ".") = {}
    /\ \/ rest = seg
       \/ \E head \in {SubSeq(rest, 1, n) : n \in 0..Len(rest)} :
             rest = head \o <<".">> \o seg

\* C22: the worker session name of a plan and a task is "croc-worker-", the
\* plan id with one leading "plan-" label removed, "-", and a segment: when the
\* task id starts with "task-", what follows the final dot of the rest of the
\* id; when it does not, the whole task id unchanged.
C22_WorkerName ==
    \A p \in Procs :
       Named(p, "worker_session_name") =>
          LET plan_id == res[p].arg[1]
              task_id == res[p].arg[2]
              tail == After(res[p].ret, Len(CrocWorker))
          IN  /\ res[p].ret = CrocWorker \o tail
              /\ \E k \in 1..Len(tail) :
                    /\ tail[k] = "-"
                    /\ BareOf(plan_id, PlanLabel, SubSeq(tail, 1, k - 1))
                    /\ IF StartsWith(task_id, TaskLabel)
                       THEN AfterFinalDot(After(task_id, Len(TaskLabel)),
                                          After(tail, k))
                       ELSE After(tail, k) = task_id

\* A worker name was computed for a nested subtask id: the segment is what
\* follows its second dot.
C22_Witness ==
    /\ Named(1, "worker_session_name")
    /\ res[1].arg[1] = PlanLabel \o <<"a">>
    /\ res[1].arg[2] = TaskLabel \o <<"a", ".", "1", ".", "2">>
    /\ res[1].ret = CrocWorker \o <<"a", "-", "2">>

(***************************************************************************)
(* Sessions (tmux.rs).  Every operation runs one tmux command and maps its *)
(* outcome to a Result.  tmux is the environment: a server that holds the  *)
(* sessions and exits with the last of them.  A command given -t name      *)
(* resolves the name as tmux does: the session of exactly that name, else  *)
(* the only session whose name starts with it (the names here hold no      *)
(* pattern characters, dots or colons).                                    *)
(***************************************************************************)
MaxKeys == 1
SessionProcs == {1}
Commands == {"opencode"}
Keys == {"go"}

PlanA == PlanLabel \o <<"a">>
SessionNames ==
    {WorkerSessionName(PlanA, TaskLabel \o <<"a", ".", "1">>),
     WorkerSessionName(PlanA, TaskLabel \o <<"a", ".", "1", "0">>),
     <<"d", "e", "v">>}

Session(name, command) == [name |-> name, command |-> command, keys |-> <<>>]
Names(s) == {x.name : x \in s}
SessionNamed(s, name) == CHOOSE x \in s : x.name = name

\* The session a command's -t name addresses: Some(its name) or None.
Target(s, name) ==
    IF name \in Names(s) THEN <<name>>
    ELSE LET M == {n \in Names(s) : StartsWith(n, name)}
         IN  IF Cardinality(M) = 1 THEN <<CHOOSE n \in M : TRUE>> ELSE <<>>

\* What a tmux command does: how it exits, the sessions it leaves and what it
\* prints.
Ran(exit, s, out) == [exit |-> exit, sessions |-> s, out |-> out]
NoTarget(s) == Ran(IF s = {} THEN "no_server" ELSE "no_target", s, <<>>)

NewSession(s, name, command) ==
    IF name \in Names(s) THEN Ran("duplicate", s, <<>>)
    ELSE Ran("ok", s \cup {Session(name, command)}, <<>>)

HasSession(s, name) ==
    IF Target(s, name) = <<>> THEN NoTarget(s) ELSE Ran("ok", s, <<>>)

SendKeys(s, name, keys) ==
    IF Target(s, name) = <<>> THEN NoTarget(s)
    ELSE LET x == SessionNamed(s, Target(s, name)[1])
         IN  Ran("ok", (s \ {x}) \cup {[x EXCEPT !.keys = Append(@, keys)]},
                 <<>>)

CapturePane(s, name) ==
    IF Target(s, name) = <<>> THEN NoTarget(s)
    ELSE Ran("ok", s, SessionNamed(s, Target(s, name)[1]).keys)

KillSession(s, name) ==
    IF Target(s, name) = <<>> THEN NoTarget(s)
    ELSE Ran("ok", s \ {SessionNamed(s, Target(s, name)[1])}, <<>>)

AttachSession(s, name) ==
    IF Target(s, name) = <<>> THEN NoTarget(s) ELSE Ran("ok", s, <<>>)

\* list-sessions prints the names one to a line, in the server's order.
Arrangements(S) ==
    {q \in [1..Cardinality(S) -> S] : \A i, j \in DOMAIN q : q[i] = q[j] => i = j}

ListSessions(s) ==
    IF s = {} THEN {NoTarget(s)}
    ELSE {Ran("ok", s, q) : q \in Arrangements(Names(s))}

TmuxError(op) == Err("Tmux", <<op>>)

\* Mutant: the exit status of new-session is not looked at.
SpawnResult_IgnoreStatus(r) == Ok(NONE)

\* TmuxSession::spawn after the command ran.
SpawnResult(r) == IF r.exit # "ok" THEN TmuxError("spawn") ELSE Ok(NONE)

\* TmuxSession::exists: Ok(status.success()).
ExistsResult(r) == Ok(r.exit = "ok")

SendKeysResult(r) == IF r.exit # "ok" THEN TmuxError("send_keys") ELSE Ok(NONE)

CapturePaneResult(r) ==
    IF r.exit # "ok" THEN TmuxError("capture_pane") ELSE Ok(r.out)

KillResult(r) == IF r.exit # "ok" THEN TmuxError("kill") ELSE Ok(NONE)

AttachResult(r) == IF r.exit # "ok" THEN TmuxError("attach") ELSE Ok(NONE)

\* list_sessions: an empty list when the command did not succeed.
ListSessionsResult(r) == IF r.exit # "ok" THEN Ok(<<>>) ELSE Ok(r.out)

\* What the operation op returns once its command has run as r.
ResultOf(op, r) ==
    CASE op = "spawn" -> SpawnResult(r)
      [] op = "exists" -> ExistsResult(r)
      [] op = "send_keys" -> SendKeysResult(r)
      [] op = "capture_pane" -> CapturePaneResult(r)
      [] op = "kill" -> KillResult(r)
      [] op = "attach" -> AttachResult(r)
      [] op = "list_sessions" -> ListSessionsResult(r)

\* One operation of process p: the tmux command runs as one of runs, or tmux
\* cannot be started (map_err on the Command), or the command fails for a
\* reason of its own (the server cannot be reached).
Tmux(p, op, arg, runs) ==
    /\ pc[p] = "idle"
    /\ \E r \in runs \cup {Ran("not_run", sessions, <<>>),
                           Ran("failed", sessions, <<>>)} :
          /\ IF r.exit \in {"not_run", "failed"}
             THEN CanFail /\ Fault(p, op)
             ELSE UNCHANGED faults
          /\ sessions' = r.sessions
          /\ res' = [res EXCEPT ![p] =
                        [op |-> op, ty |-> "tmux", arg |-> arg,
                         ret |-> IF r.exit = "not_run" THEN TmuxError(op)
                                 ELSE ResultOf(op, r),
                         exit |-> r.exit]]
    /\ UNCHANGED <<dirExists, fexists, fdata, lock, mirror, eng, pc, call,
                   todo, pre, issued, granted, acked, unmirrored, written>>

Spawn(p, name, command) ==
    Tmux(p, "spawn", name, {NewSession(sessions, name, command)})

Exists(p, name) == Tmux(p, "exists", name, {HasSession(sessions, name)})

SendKeysTo(p, name, keys) ==
    /\ \A x \in sessions : Target(sessions, name) = <<x.name>> =>
                            Len(x.keys) < MaxKeys
    /\ Tmux(p, "send_keys", name, {SendKeys(sessions, name, keys)})

CapturePaneOf(p, name) ==
    Tmux(p, "capture_pane", name, {CapturePane(sessions, name)})

Kill(p, name) == Tmux(p, "kill", name, {KillSession(sessions, name)})

Attach(p, name) == Tmux(p, "attach", name, {AttachSession(sessions, name)})

ListSessionsCall(p) == Tmux(p, "list_sessions", <<>>, ListSessions(sessions))

\* The command of a session ends, and the session with it.
CommandExits(name) ==
    /\ name \in Names(sessions)
    /\ sessions' = sessions \ {SessionNamed(sessions, name)}
    /\ UNCHANGED <<dirExists, fexists, fdata, lock, mirror, eng, pc, call,
                   todo, res, pre, issued, granted, acked, unmirrored,
                   written, faults>>

NextSession ==
    \/ \E p \in SessionProcs : \E name \in SessionNames :
          \/ \E command \in Commands : Spawn(p, name, command)
          \/ Exists(p, name)
          \/ \E keys \in Keys : SendKeysTo(p, name, keys)
          \/ CapturePaneOf(p, name)
          \/ Kill(p, name)
          \/ Attach(p, name)
    \/ \E p \in SessionProcs : ListSessionsCall(p)
    \/ \E name \in SessionNames : CommandExits(name)

SpecSession == Init /\ [][NextSession]_vars

(***************************************************************************)
(* Properties of the sessions.                                             *)
(***************************************************************************)
IsTmuxError(ret) == ~ret.ok /\ ret.err = "Tmux"

\* C23: a spawn under a name that a session already has returns a Tmux error
\* and leaves the sessions as they were; a spawn under a free name that
\* returns Ok has added one session of that name and no other, and exists on
\* that name then returns true (a spawn that fails adds nothing).
C23_SpawnCollidesOrCreates ==
    [][\A p \in SessionProcs : \A name \in SessionNames :
          /\ \A command \in Commands :
                res'[p].op = "spawn" /\ Spawn(p, name, command) =>
                   IF name \in Names(sessions)
                   THEN IsTmuxError(res'[p].ret) /\ sessions' = sessions
                   ELSE IF res'[p].ret.ok
                        THEN /\ sessions' = sessions \cup {Session(name, command)}
                             /\ ExistsResult(HasSession(sessions', name)) = Ok(TRUE)
                        ELSE sessions' = sessions
          /\ /\ res'[p].op = "exists"
             /\ Exists(p, name)
             /\ name \in Names(sessions)
             /\ faults' = faults
             =>
                res'[p].ret = Ok(TRUE)]_vars

\* A spawn under the name of a live session has failed as a duplicate while
\* another session is live too.
C23_Witness ==
    /\ res[1].op = "spawn"
    /\ res[1].ty = "tmux"
    /\ res[1].exit = "duplicate"
    /\ IsTmuxError(res[1].ret)
    /\ res[1].arg \in Names(sessions)
    /\ Cardinality(sessions) = 2

\* C24: a kill that tmux ran, on the name of a live session, returns Ok and
\* removes that session and no other; after it exists on the name returns
\* false, send_keys and capture_pane on the name fail and a spawn under the
\* name succeeds; a kill on a name that no session has returns a Tmux error
\* and removes nothing.
C24_KillRemovesTheNamedSession ==
    [][\A p \in SessionProcs : \A name \in SessionNames :
          res'[p].op = "kill" /\ Kill(p, name) /\ faults' = faults =>
             IF name \in Names(sessions)
             THEN /\ res'[p].ret.ok
                  /\ sessions' = sessions \ {SessionNamed(sessions, name)}
                  /\ ExistsResult(HasSession(sessions', name)) = Ok(FALSE)
                  /\ \A keys \in Keys :
                        IsTmuxError(SendKeysResult(SendKeys(sessions', name, keys)))
                  /\ IsTmuxError(CapturePaneResult(CapturePane(sessions', name)))
                  /\ \A command \in Commands :
                        SpawnResult(NewSession(sessions', name, command)).ok
             ELSE IsTmuxError(res'[p].ret) /\ sessions' = sessions]_vars

\* C25: every operation whose tmux command could not be started or did not
\* succeed returns a Tmux error (has-session finding no session of the name on
\* a running server is the answer false of exists, not a failure).
C25_FailuresAreSessionErrors ==
    \A p \in SessionProcs :
       /\ res[p].ty = "tmux"
       /\ res[p].exit # "ok"
       /\ ~(res[p].op = "exists" /\ res[p].exit = "no_target")
       => IsTmuxError(res[p].ret)

(***************************************************************************)
(* Reads by relationship and the active plans (cache.rs 297-338).  One     *)
(* process appends tasks and context items and reads them back.            *)
(***************************************************************************)
\* Mutant: no ORDER BY: the rows in any arrangement.
OrderByCreatedAtDesc_Unordered(rows) == Arrangements(rows)

\* ORDER BY created_at DESC: every arrangement of the rows that descends in
\* created_at.
OrderByCreatedAtDesc(rows) ==
    {s \in Arrangements(rows) :
        \A i, j \in DOMAIN s :
           i < j => ParseFromRfc3339(s[i].created_at)
                       >= ParseFromRfc3339(s[j].created_at)}

\* Cache::get_active_plans: WHERE status IN ('"approved"', '"running"')
\* ORDER BY created_at DESC.
CacheGetActivePlans(m) ==
    {Ok([i \in DOMAIN s |-> RowToPlan(s[i])]) :
        s \in OrderByCreatedAtDesc(
                 {r \in m["plans"] :
                     r.status \in {"\"approved\"", "\"running\""}})}

\* CrocEngine::get_active_plans.
GetActivePlans(p) ==
    Query(p, "get_active_plans", "plan", NONE, CacheGetActivePlans(mirror))

QueryTypes == {"task", "context"}
QueryPlanIds == {"plan-a", "plan-b"}
QuerySubtaskIds == {"task-a.1", "task-x"}

QueryInputs(ty) ==
    CASE ty = "task" ->
           {Task("task-a.1", "plan-a", "t1", "Pending", 2),
            Task("task-a.2", "plan-a", "t2", "Pending", 1),
            Task("task-a.3", "plan-a", "t3", "Running", 1),
            Task("task-b.1", "plan-b", "t4", "Pending", 1)}
      [] ty = "context" ->
           {ContextItem("fact-1", "plan-a", "task-a.1", "c1", 2),
            ContextItem("fact-2", "plan-a", "task-a.1", "c2", 1),
            ContextItem("fact-3", "plan-b", NONE, "c3", 1)}

NextQuery ==
    \/ InitExec
    \/ \E p \in EngineProcs :
          \/ New(p)
          \/ EnsureCacheSynced(p)
          \/ ReadPlans(p)
          \/ \E ty \in QueryTypes : \E e \in QueryInputs(ty) : EngineAppend(p, ty, e)
          \/ Open(p)
          \/ Lock(p)
          \/ Write(p)
          \/ Newline(p)
          \/ Unlock(p)
          \/ Upsert(p)
          \/ \E id \in QueryPlanIds : GetTasksForPlan(p, id)
          \/ \E id \in QueryPlanIds : GetContextForPlan(p, id)
          \/ \E id \in QuerySubtaskIds : GetContextForTask(p, id)

SpecQuery == Init /\ [][NextQuery]_vars

\* One process appends plans in several statuses and reads the active ones.
ActiveInputs ==
    {Plan("plan-a", "t1", "Approved", 1),
     Plan("plan-a", "t1", "Complete", 1),
     Plan("plan-b", "t2", "Running", 2),
     Plan("plan-b", "t2", "Pending", 2),
     Plan("plan-c", "t3", "Cancelled", 2)}

NextActive ==
    \/ InitExec
    \/ \E p \in EngineProcs :
          \/ New(p)
          \/ EnsureCacheSynced(p)
          \/ ReadPlans(p)
          \/ \E e \in ActiveInputs : EngineAppend(p, "plan", e)
          \/ Open(p)
          \/ Lock(p)
          \/ Write(p)
          \/ Newline(p)
          \/ Unlock(p)
          \/ Upsert(p)
          \/ GetActivePlans(p)

SpecActive == Init /\ [][NextActive]_vars

(***************************************************************************)
(* Properties of the reads by relationship and of the active plans.        *)
(***************************************************************************)
RelationReads ==
    {"get_tasks_for_plan", "get_context_for_plan", "get_context_for_task"}

\* The entities of the mirror m that the read op of arg is about.
Matching(m, op, arg) ==
    CASE op = "get_tasks_for_plan" ->
           {RowToTask(r) : r \in {x \in m["tasks"] : x.plan_id = arg}}
      [] op = "get_context_for_plan" ->
           {RowToContext(r) : r \in {x \in m["context_items"] : x.plan_id = arg}}
      [] op = "get_context_for_task" ->
           {RowToContext(r) : r \in {x \in m["context_items"] : x.subtask_id = arg}}

\* The sequence v holds each member of S once and nothing else.
Exactly(v, S) == {v[i] : i \in DOMAIN v} = S /\ Len(v) = Cardinality(S)

Ascending(v) == \A i, j \in DOMAIN v : i < j => v[i].created_at <= v[j].created_at

Descending(v) == \A i, j \in DOMAIN v : i < j => v[i].created_at >= v[j].created_at

\* The plans of the mirror m, as get_plan returns them.
PlansOf(m) == {RowToPlan(r) : r \in m["plans"]}

\* C27: a get_active_plans that returns Ok returns each plan of the mirror
\* whose status is Approved or Running once, and nothing else, in descending
\* created_at; a plan that the process last appended with Ok as Complete or
\* Cancelled is not among them, one it last appended with Ok as Approved or
\* Running is.
C27_ActivePlansNewestFirst ==
    \A p \in EngineProcs :
       res[p].op = "get_active_plans" /\ res[p].ret.ok =>
          /\ Exactly(res[p].ret.val,
                     {pl \in PlansOf(pre[p].mirror) :
                         pl.status \in {"Approved", "Running"}})
          /\ Descending(res[p].ret.val)
          /\ \A w \in written[p] :
                w[1] = "plan" =>
                   IF w[2].status \in {"Approved", "Running"}
                   THEN \E i \in DOMAIN res[p].ret.val : res[p].ret.val[i] = w[2]
                   ELSE \A i \in DOMAIN res[p].ret.val :
                           res[p].ret.val[i].id # w[2].id

\* plan-a was appended as Approved and then as Complete, both with Ok, and
\* the active plans read after it are none.
C27_Witness ==
    /\ res[1].op = "get_active_plans"
    /\ res[1].ret = Ok(<<>>)
    /\ <<"plan", Plan("plan-a", "t1", "Complete", 1)>> \in written[1]
    /\ fdata[LogFile("plan")] =
          <<JsonChunk(ToJson("plan", Plan("plan-a", "t1", "Approved", 1))), NlChunk,
            JsonChunk(ToJson("plan", Plan("plan-a", "t1", "Complete", 1))), NlChunk>>
    /\ faults = 0

(***************************************************************************)
(* Properties of the lock and of the log targets.                          *)
(***************************************************************************)
\* C28: a process holds the lock of a log file only between the lock and the
\* unlock of an append to that file that it is executing; a process that is
\* in no call, or past the log append of its call, holds no lock, whatever
\* the append returned.
C28_LockHeldOnlyInsideAppend ==
    \A f \in Files : \A p \in Procs :
       p \in lock[f] =>
          /\ pc[p] \in {"write", "newline", "unlock"}
          /\ call[p].op \in {"storage_append", "append"}
          /\ LogFile(call[p].ty) = f

\* Process 1 has returned from an append that failed at the write or at the
\* unlock, and process 2 holds the lock of the same file.
C28_Witness ==
    /\ res[1].op = "storage_append"
    /\ ~res[1].ret.ok
    /\ res[1].ret.info \in {<<"write">>, <<"unlock">>}
    /\ pc[1] = "idle"
    /\ lock[LogFile(res[1].ty)] = {2}

\* C29: while a process executes an engine append of an entity of one type,
\* the log files of the four other types hold what they held when the call
\* started; once the log append has returned Ok the file of the entity's type
\* holds what it held, then the entity's JSON text and a line terminator.
C29_AppendWritesOwnTargetOnly ==
    \A p \in EngineProcs :
       call[p].op = "append" =>
          /\ \A ty \in ETypes \ {call[p].ty} :
                fdata[LogFile(ty)] = pre[p].fdata[LogFile(ty)]
          /\ pc[p] = "upsert" =>
                fdata[LogFile(call[p].ty)] =
                   pre[p].fdata[LogFile(call[p].ty)]
                      \o <<JsonChunk(ToJson(call[p].ty, call[p].arg)), NlChunk>>

\* A task has been appended to the log while the plan log holds a plan: the
\* task's line is in the task log, the plan log is as it was.
C29_Witness ==
    /\ pc[1] = "upsert"
    /\ call[1].op = "append"
    /\ call[1].ty = "task"
    /\ pre[1].fdata[LogFile("plan")] # <<>>
    /\ fdata[LogFile("plan")] = pre[1].fdata[LogFile("plan")]
    /\ fdata[LogFile("task")] =
          <<JsonChunk(ToJson("task", Task("task-a", "plan-a", "t1", "Pending", 1))),
            NlChunk>>

\* C30: a construction that starts with a plan in the mirror, or with no
\* plan to read in the plan log, runs no step of a full sync: while it
\* executes and once it has returned Ok the mirror holds what it held when
\* the construction started, whatever the logs hold.
C30_NoSyncWithoutTheSignal ==
    \A p \in EngineProcs :
       ~StartedWithPlansToSync(p) =>
          /\ call[p].op = "new" =>
                /\ pc[p] \in {"ensure_cache_synced", "read_plans"}
                /\ mirror = pre[p].mirror
          /\ res[p].op = "new" =>
                /\ res[p].arg = <<>>
                /\ eng[p] => mirror = pre[p].mirror

\* A construction has returned Ok with a plan in the mirror and a task in the
\* log that the mirror lacks: the mirror is as the construction found it.
C30_Witness ==
    /\ res[1].op = "new"
    /\ res[1].ret.ok
    /\ eng[1]
    /\ mirror["plans"] # {}
    /\ mirror["tasks"] = {}
    /\ fdata[LogFile("task")] =
          <<JsonChunk(ToJson("task", Task("task-a", "plan-a", "t1", "Pending", 1))),
            NlChunk>>
    /\ mirror = pre[1].mirror

(***************************************************************************)
(* Discovery of the sessions of this system (tmux.rs 146-152).  One        *)
(* process spawns sessions under the names of a foreman, a reviewer and a  *)
(* worker and under the name of another program, and looks for its own.    *)
(***************************************************************************)
Croc == <<"c", "r", "o", "c", "-">>

\* The names the three naming functions give for one plan and its subtask.
RoleNames ==
    {ForemanSessionName(PlanA),
     ReviewerSessionName(PlanA),
     WorkerSessionName(PlanA, TaskLabel \o <<"a", ".", "1">>)}

\* The names sessions are spawned under: the role names, and the name of a
\* session that is not of this system.
FindNames == RoleNames \cup {<<"c", "r", "o", "c">>}

\* sessions.into_iter().filter(|s| s.starts_with("croc-")).collect()
FilterCroc(listed) == SelectSeq(listed, LAMBDA s : StartsWith(s, Croc))

\* find_croc_sessions: list_sessions()?, then the filter.  listed is what
\* list_sessions returned to it.
FindCrocSessions(p) ==
    /\ pc[p] = "idle"
    /\ \E r \in ListSessions(sessions) \cup {Ran("not_run", sessions, <<>>),
                                             Ran("failed", sessions, <<>>)} :
          LET listed == IF r.exit = "not_run" THEN TmuxError("list_sessions")
                        ELSE ListSessionsResult(r)
          IN  /\ IF r.exit \in {"not_run", "failed"}
                 THEN CanFail /\ Fault(p, "find_croc_sessions")
                 ELSE UNCHANGED faults
              /\ res' = [res EXCEPT ![p] =
                            [op |-> "find_croc_sessions", ty |-> "tmux",
                             arg |-> <<>>,
                             ret |-> IF listed.ok THEN Ok(FilterCroc(listed.val))
                                     ELSE listed,
                             exit |-> r.exit,
                             listed |-> listed]]
    /\ UNCHANGED <<dirExists, fexists, fdata, lock, mirror, eng, pc, call,
                   todo, pre, issued, granted, acked, unmirrored, written,
                   sessions>>

NextFind ==
    \/ \E p \in SessionProcs : \E name \in FindNames :
          \/ \E command \in Commands : Spawn(p, name, command)
          \/ Kill(p, name)
    \/ \E p \in SessionProcs : FindCrocSessions(p)
    \/ \E name \in FindNames : CommandExits(name)

SpecFind == Init /\ [][NextFind]_vars

\* The names in the list v.
Listed(v) == {v[i] : i \in DOMAIN v}

\* v holds the elements of w that start with "croc-", in the order of w.
IsCrocPartOf(v, w) ==
    LET keep == {i \in DOMAIN w : StartsWith(w[i], Croc)}
    IN /\ Len(v) = Cardinality(keep)
       /\ \A i \in keep :
             v[Cardinality({j \in keep : j <= i})] = w[i]

\* C31: find_croc_sessions returns the names list_sessions returned to it
\* that start with "croc-", in their order; the foreman, reviewer and worker
\* names start with "croc-"; and every live session under a role name is in
\* the list that find_croc_sessions returns.
C31_RoleSessionsDiscovered ==
    [][\A p \in SessionProcs :
          res'[p].op = "find_croc_sessions" /\ FindCrocSessions(p)
             /\ res'[p].ret.ok =>
                /\ IsCrocPartOf(res'[p].ret.val, res'[p].listed.val)
                /\ \A name \in RoleNames : StartsWith(name, Croc)
                /\ \A name \in RoleNames \cap Names(sessions) :
                      name \in Listed(res'[p].ret.val)]_vars

(***************************************************************************)
(* The project shared by two processes (croc_engine.rs).  Each constructs  *)
(* its own engine over the same log files and the same mirror file,        *)
(* appends versions of one plan, reads it back and runs full syncs.  Where *)
(* the mirror is shared the five DELETE statements of Cache::clear_all are *)
(* five steps: another process reads and writes the mirror between them.   *)
(***************************************************************************)
\* Cache::clear_all, one statement: DELETE FROM the table of call[p].ty,
\* then the next statement, and the replay after the last one.  A statement
\* that fails returns the error with the tables before it already empty.
DeleteFrom(p) ==
    /\ pc[p] = "clear_all"
    /\ LET ty == call[p].ty IN
       \/ /\ mirror' = [mirror EXCEPT ![Table(ty)] = {}]
          /\ IF ty = SyncOrder[Len(SyncOrder)]
             THEN /\ pc' = [pc EXCEPT ![p] = "sync_read"]
                  /\ call' = [call EXCEPT ![p].ty = SyncOrder[1],
                                          ![p].arg = <<"clear">>]
             ELSE /\ call' = [call EXCEPT ![p].ty = NextType(ty)]
                  /\ UNCHANGED pc
          /\ UNCHANGED <<res, todo, eng, faults>>
       \/ /\ CanFail
          /\ Fault(p, "clear_all")
          /\ SyncReturn(p, <<>>, Err("Sqlite", <<>>))
          /\ UNCHANGED mirror
    /\ written' = [q \in Procs |-> {}]
    /\ UNCHANGED sessions
    /\ UNCHANGED <<dirExists, fexists, fdata, lock, pre, issued, granted,
                   acked, unmirrored>>

\* Each process appends its own version of one plan.
SharedInput(p) ==
    IF p = 1 THEN Plan("plan-a", "t1", "Pending", 1)
             ELSE Plan("plan-a", "t2", "Approved", 1)

\* Both processes have constructed their engine over a project that was
\* initialised and holds no record yet.
InitShared ==
    /\ dirExists = TRUE
    /\ fexists = [f \in Files |-> FALSE]
    /\ fdata = [f \in Files |-> <<>>]
    /\ lock = [f \in Files |-> {}]
    /\ mirror = [t \in Tables |-> {}]
    /\ eng = [p \in Procs |-> TRUE]
    /\ pc = [p \in Procs |-> "idle"]
    /\ call = [p \in Procs |-> NoCall]
    /\ todo = [p \in Procs |-> <<>>]
    /\ res = [p \in Procs |-> NoRes]
    /\ pre = [p \in Procs |-> NoPre]
    /\ issued = [p \in Procs |-> <<>>]
    /\ granted = [f \in Files |-> <<>>]
    /\ acked = [p \in Procs |-> <<>>]
    /\ unmirrored = {}
    /\ written = [p \in Procs |-> {}]
    /\ sessions = {}
    /\ faults = 0

\* Process 1 appends and reads; process 2 appends and runs full syncs.
Reader == 1
Syncer == 2

NextShared ==
    \/ \E p \in Procs :
          \/ EngineAppend(p, "plan", SharedInput(p))
          \/ Open(p)
          \/ Lock(p)
          \/ Write(p)
          \/ Newline(p)
          \/ Unlock(p)
          \/ Upsert(p)
    \/ GetPlan(Reader, "plan-a")
    \/ FullSync(Syncer)
    \/ DeleteFrom(Syncer)
    \/ SyncRead(Syncer)
    \/ SyncUpsert(Syncer)

SpecShared == InitShared /\ [][NextShared]_vars

\* The rows of the mirror's table of type ty that have the id.
RowsOf(ty, id) == {r \in mirror[Table(ty)] : r.id = id}

\* C32: when both processes have appended different versions of one id
\* through the engine, both appends have returned Ok and no I/O failure
\* occurred, the mirror holds for that id the row of the last log record with
\* the id.
C32_MirrorHoldsLastAppended ==
    \A p \in Procs : \A q \in Procs \ {p} :
       (/\ faults = 0
        /\ AllIdle
        /\ res[p].op = "append" /\ res[p].ret.ok
        /\ res[q].op = "append" /\ res[q].ret.ok
        /\ res[p].ty = res[q].ty
        /\ res[p].arg.id = res[q].arg.id
        /\ res[p].arg # res[q].arg)
          => LET ty == res[p].ty
                 id == res[p].arg.id
             IN  /\ Decoded(ty).ok
                 /\ RowsOf(ty, id) # {}
                 /\ RowsOf(ty, id) \subseteq LastPerId(ty, Decoded(ty).val)

\* C34: a read of an id by a process whose last read of that id returned
\* the entity returns an entity again (not NotFound), whatever the other
\* process did in between, a full sync included, when the read itself does
\* not fail.
C34_ReadStaysPresent ==
    [][\A id \in PlanIds :
          (/\ res[Reader].op = "get_plan"
           /\ res[Reader].arg = id
           /\ res[Reader].ret.ok
           /\ res'[Reader].op = "get_plan"
           /\ GetPlan(Reader, id)
           /\ faults' = faults)
             => res'[Reader].ret.ok]_vars

\* The sync that the last call of p ran has failed after it had cleared the
\* mirror and replayed the plans of a plan log that holds one or more.
SyncFailedPartway(p) ==
    /\ res[p].op \in {"new", "full_sync"}
    /\ ~res[p].ret.ok
    /\ Len(res[p].arg) >= 2
    /\ res[p].arg[1] = "clear"
    /\ res[p].arg[2] = "plan"
    /\ Decoded("plan").ok
    /\ Decoded("plan").val # <<>>

\* ensure_cache_synced would call full_sync in this state: no plan in the
\* mirror and a plan log that reads as one record or more.
TriggerFires == mirror["plans"] = {} /\ Decoded("plan").ok /\ Decoded("plan").val # <<>>

\* The mirror holds the whole of the logs: per table the row of the last
\* record of each id.
MirrorIsWhole ==
    \A ty \in ETypes :
       Decoded(ty).ok /\ mirror[Table(ty)] = LastPerId(ty, Decoded(ty).val)

\* C33: a full sync that failed after the clear and the replay of the plans
\* leaves a state in which the next construction syncs again (the trigger of
\* ensure_cache_synced fires), or else a mirror that holds the whole of the
\* logs.
C33_FailedSyncIsRetried ==
    \A p \in EngineProcs :
       SyncFailedPartway(p) => TriggerFires \/ MirrorIsWhole

\* The lines of the appends of type ty by p that returned Ok, in order.
AckedLines(p, ty) ==
    [i \in 1..Len(AckedTo(p, ty)) |-> LineOf(ty, AckedTo(p, ty)[i])]

\* C36: when the append of the one process that writes a log file has
\* returned an error, the file holds the records it held before the call and
\* no other: its lines are the lines of the appends that returned Ok (the
\* failed append is the first that failed, so these are the lines the file
\* held when the call started).
C36_FailedAppendAddsNoRecord ==
    \A p \in Readers :
       (res[p].op = "storage_append" /\ ~res[p].ret.ok) =>
          AppendedLines(LogFile(res[p].ty)) = AckedLines(p, res[p].ty)

\* The rows of the records whose text the log file of type ty holds.
RowsInLog(ty) ==
    LET f == LogFile(ty)
    IN  {ToRow(ty, FromJson(ty, fdata[f][i].o)) :
            i \in {k \in 1..Len(fdata[f]) :
                      fdata[f][k].k = "json" /\ Parses(ty, fdata[f][k].o)}}

\* C35: the mirror is never ahead of the log: every row of every table of
\* the mirror is the row of a record whose text is in the log file of its
\* type, in every state, with appends by both processes and full syncs
\* running at the same time and with I/O failures.
C35_MirrorNeverAheadOfLog ==
    \A ty \in ETypes : mirror[Table(ty)] \subseteq RowsInLog(ty)

\* C35's case: the full sync of process 2 read the plan log when it held
\* process 2's version alone and has that record still to upsert, while
\* process 1 has since appended its version, which the mirror now holds.
C35_Witness ==
    /\ pc[Syncer] = "sync_upsert"
    /\ todo[Syncer] = <<SharedInput(Syncer)>>
    /\ res[Reader].op = "append"
    /\ res[Reader].ret.ok
    /\ mirror["plans"] = {ToRow("plan", SharedInput(Reader))}
    /\ Decoded("plan").ok
    /\ Len(Decoded("plan").val) = 2

(***************************************************************************)
(* The constructors that make their own ids (schemas.rs 190-308): the id   *)
(* of a context item, an event and a review is a label and the reading of  *)
(* the clock in milliseconds.  The clock is read once for the id and once  *)
(* for the creation time; it may advance between the two readings and it   *)
(* may stand still from one creation to the next.                          *)
(***************************************************************************)
MaxClock == 2
Clock == 1..MaxClock

\* format!("{}-{}", prefix, Utc::now().timestamp_millis())
GenerateId(prefix, millis) == prefix \o "-" \o ToString(millis)

\* ContextItem::new_fact / new_decision
NewFact(plan_id, subtask_id, content, t_id, t_at) ==
    ContextItem(GenerateId("fact", t_id), plan_id, subtask_id, content, t_at)

NewDecision(plan_id, subtask_id, content, t_id, t_at) ==
    ContextItem(GenerateId("dec", t_id), plan_id, subtask_id, content, t_at)

\* Event::new
NewEvent(event_type, t_id, t_at) ==
    Event(GenerateId("evt", t_id), event_type, NONE, t_at)

\* Review::new
NewReview(plan_id, t_id, t_at) ==
    Review(GenerateId("rev", t_id), plan_id, "Pending", t_at)

Contents == {"c1", "c2"}

\* What a caller creates and hands to the engine at once: the two clock
\* readings of the constructor are t_id and t_at.
Created(ty, t_id, t_at) ==
    CASE ty = "context" ->
           {NewFact("plan-a", NONE, c, t_id, t_at) : c \in Contents}
             \cup {NewDecision("plan-a", NONE, c, t_id, t_at) : c \in Contents}
      [] ty = "event" -> {NewEvent("PlanCreated", t_id, t_at)}
      [] ty = "review" -> {NewReview("plan-a", t_id, t_at)}

IdTypes == {"context", "event", "review"}

CreateAndAppend(p, ty) ==
    \E t_id \in Clock : \E t_at \in t_id..MaxClock :
       \E e \in Created(ty, t_id, t_at) : EngineAppend(p, ty, e)

NextIds ==
    \E p \in EngineProcs :
       \/ \E ty \in IdTypes : CreateAndAppend(p, ty)
       \/ Open(p)
       \/ Lock(p)
       \/ Write(p)
       \/ Newline(p)
       \/ Unlock(p)
       \/ Upsert(p)
       \/ GetContextForPlan(p, "plan-a")

SpecIds == InitShared /\ [][NextIds]_vars

\* C37: when every append has returned and no I/O failure occurred, the
\* records created and appended, one log record per creation, have ids that
\* differ from one another, and the mirror holds the row of each of them.
C37_CreatedIdsDistinct ==
    \A ty \in IdTypes :
       (faults = 0 /\ AllIdle /\ Decoded(ty).ok) =>
          LET recs == Decoded(ty).val
          IN  /\ \A i, j \in DOMAIN recs : i # j => recs[i].id # recs[j].id
              /\ \A i \in DOMAIN recs : ToRow(ty, recs[i]) \in mirror[Table(ty)]

(***************************************************************************)
(* Workers of the tasks of one plan.  The task ids are the ones the task   *)
(* constructors make (schemas.rs 129-173): the foreman task of the plan,   *)
(* its subtasks and their subtasks.  A worker is spawned under the name    *)
(* worker_session_name gives for its task; the command it runs names the   *)
(* task, which is how a running session is told to belong to a task.       *)
(***************************************************************************)
MaxSubtaskNum == 2
DigitChars == <<"1", "2", "3", "4", "5", "6", "7", "8", "9">>

\* Task::generate_foreman_id
GenerateForemanId(plan_id) ==
    TaskLabel \o UnwrapOr(StripPrefix(plan_id, PlanLabel), plan_id)

\* The id of Task::new_subtask: format!("{}.{}", parent_id, subtask_num)
NewSubtaskId(parent_id, subtask_num) ==
    parent_id \o <<".">> \o <<DigitChars[subtask_num]>>

SubtasksOf(parents) ==
    {NewSubtaskId(parent_id, n) : parent_id \in parents, n \in 1..MaxSubtaskNum}

PlanTasks ==
    LET foreman == {GenerateForemanId(PlanA)}
    IN  foreman \cup SubtasksOf(foreman) \cup SubtasksOf(SubtasksOf(foreman))

SpawnWorker(p, task_id) ==
    Spawn(p, WorkerSessionName(PlanA, task_id), task_id)

KillWorker(p, task_id) == Kill(p, WorkerSessionName(PlanA, task_id))

NextWorkers ==
    \/ \E p \in SessionProcs : \E task_id \in PlanTasks :
          \/ SpawnWorker(p, task_id)
          \/ KillWorker(p, task_id)
    \/ \E task_id \in PlanTasks :
          CommandExits(WorkerSessionName(PlanA, task_id))

SpecWorkers == Init /\ [][NextWorkers]_vars

\* C38: distinct tasks of the plan have distinct worker session names, and
\* the spawn of a task's worker is refused for a name collision only when a
\* worker of that same task is already running.
C38_WorkerNamesDoNotCollide ==
    [][\A p \in SessionProcs : \A task_id \in PlanTasks :
          (/\ res'[p].op = "spawn"
           /\ SpawnWorker(p, task_id)
           /\ res'[p].exit = "duplicate")
          => /\ \E x \in sessions : x.command = task_id
             /\ \A other \in PlanTasks \ {task_id} :
                   WorkerSessionName(PlanA, other)
                      # WorkerSessionName(PlanA, task_id)]_vars

(***************************************************************************)
(* Two processes construct the engine over logs that hold records and a    *)
(* mirror that holds none (a fresh checkout: cache.db is not versioned).   *)
(* Nothing is appended meanwhile.  The five DELETEs of clear_all and the   *)
(* upserts of the replay of one process interleave with those of the       *)
(* other.                                                                  *)
(***************************************************************************)
MaxLogged == 2

LoggedPlans ==
    {Plan("plan-a", "t1", "Pending", 1), Plan("plan-a", "t2", "Approved", 1),
     Plan("plan-b", "t1", "Pending", 2)}
LoggedTasks == {Task("task-a", "plan-a", "t1", "Pending", 1)}

\* The text of a log that holds the records recs, one line each.
LogText(ty, recs) ==
    Concat([i \in 1..Len(recs) |-> <<JsonChunk(ToJson(ty, recs[i])), NlChunk>>])

InitBoth ==
    /\ dirExists = TRUE
    /\ \E plans \in UNION {[1..n -> LoggedPlans] : n \in 1..MaxLogged} :
       \E tasks \in UNION {[1..n -> LoggedTasks] : n \in 0..1} :
          /\ fexists = [f \in Files |->
                           \/ f = LogFile("plan")
                           \/ f = LogFile("task") /\ tasks # <<>>]
          /\ fdata = [f \in Files |->
                         IF f = LogFile("plan") THEN LogText("plan", plans)
                         ELSE IF f = LogFile("task")
                         THEN LogText("task", tasks)
                         ELSE <<>>]
    /\ lock = [f \in Files |-> {}]
    /\ mirror = [t \in Tables |-> {}]
    /\ eng = [p \in Procs |-> FALSE]
    /\ pc = [p \in Procs |-> "idle"]
    /\ call = [p \in Procs |-> NoCall]
    /\ todo = [p \in Procs |-> <<>>]
    /\ res = [p \in Procs |-> NoRes]
    /\ pre = [p \in Procs |-> NoPre]
    /\ issued = [p \in Procs |-> <<>>]
    /\ granted = [f \in Files |-> <<>>]
    /\ acked = [p \in Procs |-> <<>>]
    /\ unmirrored = {}
    /\ written = [p \in Procs |-> {}]
    /\ sessions = {}
    /\ faults = 0

NextBoth ==
    \E p \in Procs :
       \/ New(p)
       \/ EnsureCacheSynced(p)
       \/ ReadPlans(p)
       \/ DeleteFrom(p)
       \/ SyncRead(p)
       \/ SyncUpsert(p)

SpecBoth == InitBoth /\ [][NextBoth]_vars

\* The construction of p returned Ok after a full sync that ran to its end.
ConstructedBySync(p) ==
    /\ pc[p] = "idle"
    /\ res[p].op = "new"
    /\ res[p].ret.ok
    /\ res[p].arg = SyncDone

\* The construction of p began over an empty mirror and returned Ok.
ConstructedOverEmpty(p) ==
    /\ pc[p] = "idle"
    /\ res[p].op = "new"
    /\ res[p].ret.ok
    /\ pre[p].mirror = [t \in Tables |-> {}]

\* C39 as stated: when both constructions began over an empty mirror and
\* have returned Ok with no I/O failure, both ran a full sync, and the mirror
\* holds for every id in the logs the row of the last log record with that
\* id.
C39_BothRunFullSync ==
    (faults = 0 /\ \A p \in Procs : ConstructedOverEmpty(p)) =>
       /\ \A p \in Procs : res[p].arg = SyncDone
       /\ MirrorIsWhole

\* C39: a construction returns Ok either at the end of a full sync, or with
\* no sync at all when it finds a plan in the mirror (one the other process
\* has replayed); and once both constructions have returned Ok, each after
\* a full sync, the mirror holds for every id in the logs the row of the last
\* log record with that id, and no other row.
C39_BothSyncsLeaveMirrorWhole ==
    [][\A p \in Procs :
          (/\ pc[p] # "idle" /\ pc'[p] = "idle"
           /\ res'[p].op = "new" /\ res'[p].ret.ok) =>
             /\ \/ res'[p].arg = SyncDone
                \/ res'[p].arg = <<>> /\ mirror["plans"] # {}
             /\ (\A q \in Procs : ConstructedBySync(q))' => MirrorIsWhole']_vars

\* Both constructions returned Ok after a full sync, over a plan log with two
\* versions of one plan.
C39_Witness ==
    /\ \A p \in Procs : ConstructedBySync(p)
    /\ Decoded("plan").ok
    /\ Len(Decoded("plan").val) > Cardinality(mirror["plans"])
    /\ mirror["tasks"] # {}

\* One process has replayed the plans and is replaying the tasks when the
\* other, in the middle of its clear, has emptied the plans table.
ClearDuringReplay ==
    /\ pc[1] = "sync_upsert" /\ call[1].ty = "task"
    /\ pc[2] = "clear_all" /\ call[2].ty = "task"
    /\ mirror["plans"] = {}

(***************************************************************************)
(* Termination of concurrent appends.  Each process is a sequential        *)
(* program: a call that has started goes on with its next step as long as  *)
(* that step can run, which is weak fairness on the steps of each process. *)
(* The only step that waits for another process is lock_exclusive.  The    *)
(* processes append to the plan log and to the task log, so that two       *)
(* appends meet on one target or go to different ones.                     *)
(***************************************************************************)
FairTypes == {"plan", "task"}

FairInput(ty) ==
    IF ty = "plan" THEN Plan("plan-a", "t1", "Pending", 1)
    ELSE Task("task-a", "plan-a", "t1", "Pending", 1)

\* The step of the call p is in.
AppendStep(p) ==
    \/ Open(p)
    \/ Lock(p)
    \/ Write(p)
    \/ Newline(p)
    \/ Unlock(p)
    \/ Upsert(p)

NextFair ==
    \E p \in Procs :
       \/ \E ty \in FairTypes : EngineAppend(p, ty, FairInput(ty))
       \/ AppendStep(p)

SpecFair ==
    InitShared /\ [][NextFair]_vars /\ \A p \in Procs : WF_vars(AppendStep(p))

\* The log locks p holds.
LocksHeld(p) == {f \in Files : p \in lock[f]}

\* C40: a process holds at most one log lock at any time, and holds it only
\* inside an append, between its lock and its unlock; and every append that
\* has started returns.
C40_AppendsReturn ==
    /\ [](\A p \in Procs :
            /\ Cardinality(LocksHeld(p)) <= 1
            /\ LocksHeld(p) # {} =>
                  /\ pc[p] \in {"write", "newline", "unlock"}
                  /\ LocksHeld(p) = {LogFile(call[p].ty)})
    /\ \A p \in Procs : (pc[p] # "idle") ~> (pc[p] = "idle")

\* An append waits for the lock of the log the other process is writing.
C40_Witness ==
    /\ pc[1] = "lock"
    /\ pc[2] = "newline"
    /\ call[1].ty = call[2].ty
    /\ lock[LogFile(call[1].ty)] = {2}

====
